---------------------------- MODULE Spec2Model ----------------------------
(***************************************************************************)
(* Forward/backward Function protocol of the compyute / walnut tensor      *)
(* library: the padding and dilation primitives, the raw FFT convolution   *)
(* kernel and the fused convolution built on them, run against one         *)
(* FunctionCache.                                                          *)
(*                                                                         *)
(* A 1D tensor is [ok, lead, data]: `lead` the leading axes and `data` the *)
(* last axis, every leading index holding the same last-axis content.  A   *)
(* 2D tensor is [ok, lead, h, w, data] with data[i][j] the trailing two    *)
(* axes.  A raised exception is [ok |-> FALSE, err |-> name].              *)
(***************************************************************************)
EXTENDS Integers, Sequences, FiniteSets, TLC

VARIABLES pc, args, cache, y, dy, grads, calls, frame, modules

vars == <<pc, args, cache, y, dy, grads, calls, frame, modules>>

(* ------------------------------ bounds -------------------------------- *)
MaxLen == 4

MaxPad == 2

MaxDil == 3

MaxSide == 3

MaxK == 2

MaxStride == 3

MaxBatch == 1

MaxChan == 2
\* side of a pooled tensor, side of a pooling kernel
MaxPoolSide == 3
MaxPoolK == 2
\* linear: number of batch axes of x, size of a batch axis, number of features
MaxLinAxes == 2
MaxLinBatch == 2
MaxFeat == 2
\* embedding: size of an axis of the index tensor, rows and columns of the table
MaxIdxLen == 2
MaxVocab == 2
MaxEmbDim == 2
\* temperature_softmax: side of the input matrix, magnitude of the temperature
MaxSoftSide == 2
MaxTemp == 2
\* activations: length of the input
MaxActLen == 2
\* shuffle: length of the tensors along axis 0
MaxShuffleLen == 3

MaxModules == 3

(* --------------------------- python helpers --------------------------- *)
Min(a, b) == IF a < b THEN a ELSE b

Max(a, b) == IF a > b THEN a ELSE b

\* An Optional: <<>> is None, <<v>> is the value v.
None == <<>>

Some(v) == <<v>>

\* bool(opt) for an optional flag.
Truthy(opt) == opt # None /\ opt[1] = TRUE

\* Python's normalisation of a slice bound i on an axis of length n.
SliceBound(i, n) == IF i < 0 THEN Max(n + i, 0) ELSE Min(i, n)

\* s[start:stop] with Python's rules for negative and out-of-range bounds.
PySlice(s, start, stop) ==
    SubSeq(s, SliceBound(start, Len(s)) + 1, SliceBound(stop, Len(s)))

\* Number of elements of range(0, n, step).
StridedCount(n, step) == (n + step - 1) \div step

\* s[::step]
StridedSlice(s, step) ==
    [i \in 1..StridedCount(Len(s), step) |-> s[(i - 1) * step + 1]]

\* The target after `target[::step] = src`, src broadcast when it has one element.
StridedAssign(target, step, src) ==
    [i \in 1..Len(target) |->
        IF (i - 1) % step = 0
        THEN (IF Len(src) = 1 THEN src[1] ELSE src[((i - 1) \div step) + 1])
        ELSE target[i]]

\* Whether numpy accepts `target[::step] = src` on an axis of length n.
AssignFits(n, step, srcLen) ==
    srcLen = StridedCount(n, step) \/ srcLen = 1

Raised(name) == [ok |-> FALSE, err |-> name]

\* A sequence, the empty one always written <<>>.
AsSeq(s) == IF DOMAIN s = {} THEN <<>> ELSE s

Tensor1(lead, data) == [ok |-> TRUE, lead |-> AsSeq(lead), data |-> AsSeq(data)]

\* zeros(n)
Zeros(n) == [i \in 1..n |-> 0]

\* A tensor of distinct non-zero entries base+1 .. base+n on its last axis.
Arange(lead, n, base) == Tensor1(lead, [i \in 1..n |-> base + i])

Shape1(t) == t.lead \o <<Len(t.data)>>

Tensor2(lead, h, w, data) ==
    [ok |-> TRUE, lead |-> AsSeq(lead), h |-> h, w |-> w,
     data |-> AsSeq([i \in DOMAIN data |-> AsSeq(data[i])])]

\* A 2D tensor of distinct non-zero entries, row-major from base+1.
Arange2(lead, h, w, base) ==
    Tensor2(lead, h, w, [i \in 1..h |-> [j \in 1..w |-> base + (i - 1) * w + j]])

Shape2(t) == t.lead \o <<t.h, t.w>>

\* len(range(n)[start:stop])
SliceLen(n, start, stop) == Max(0, SliceBound(stop, n) - SliceBound(start, n))

(* ---------------------------- FunctionCache --------------------------- *)
\* A cache is [pseudo, kv, wlog, rlog]: kv the stored attributes; wlog and rlog
\* are history: the last value each function wrote to, and read from, each key.
NewCache == [pseudo |-> FALSE, kv |-> <<>>, wlog |-> <<>>, rlog |-> <<>>]

PseudoCache == [pseudo |-> TRUE, kv |-> <<>>, wlog |-> <<>>, rlog |-> <<>>]

Upd(f, k, v) == [q \in DOMAIN f \cup {k} |-> IF q = k THEN v ELSE f[q]]

\* cache.key = v, executed by function fn.  A PseudoCache discards the write.
CachePut(c, fn, key, v) ==
    IF c.pseudo THEN c
    ELSE [c EXCEPT !.kv = Upd(c.kv, key, v), !.wlog = Upd(c.wlog, <<fn, key>>, v)]

\* cache.key: the stored value, None when the key was never written.
CacheGet(c, key) == IF key \in DOMAIN c.kv THEN Some(c.kv[key]) ELSE None

\* The cache after function fn has read cache.key (history only).
CacheRead(c, fn, key) ==
    [c EXCEPT !.rlog = Upd(c.rlog, <<fn, key>>, CacheGet(c, key))]

(* ----------------------------- FDilation1D ---------------------------- *)
FDilation1D_forward(c, x, dilation) ==
    LET c1 == CachePut(c, "FDilation1D", "no_dilation", dilation = 1)
        dil_shape == dilation * Len(x.data) - 1
    IN  IF dilation = 1 THEN [y |-> x, cache |-> c1]
        ELSE [y |-> Tensor1(x.lead, StridedAssign(Zeros(dil_shape), dilation, x.data)),
              cache |-> CachePut(c1, "FDilation1D", "dilation", dilation)]

\* FDilation1D.backward with the strided slice left out
FDilation1D_backward_Unsliced(c, g) ==
    [dx |-> g,
     cache |-> CacheRead(CacheRead(c, "FDilation1D", "no_dilation"), "FDilation1D", "dilation")]

FDilation1D_backward(c, g) ==
    LET no_dilation == CacheGet(c, "no_dilation")
        dilation == CacheGet(c, "dilation")
        c1 == CacheRead(CacheRead(c, "FDilation1D", "no_dilation"),
                        "FDilation1D", "dilation")
        \* a slice step of None is a step of 1
        step == IF dilation = None THEN 1 ELSE dilation[1]
    IN  IF Truthy(no_dilation) THEN [dx |-> g, cache |-> c1]
        ELSE [dx |-> Tensor1(g.lead, StridedSlice(g.data, step)), cache |-> c1]

dilate1d(x, dilation) == FDilation1D_forward(PseudoCache, x, dilation).y

(* ------------------------------- FPad1D ------------------------------- *)
\* pad(x, widths) on the last axis
Pad1(data, before, after) == Zeros(before) \o data \o Zeros(after)

\* FPad1D.forward with the no_padding flag left out of the cache
FPad1D_forward_Unrecorded(c, x, padding) ==
    IF padding = <<0, 0>> THEN [y |-> x, cache |-> c]
    ELSE [y |-> Tensor1(x.lead, Pad1(x.data, padding[1], padding[2])),
          cache |-> CachePut(c, "FPad1D", "padding", padding)]

FPad1D_forward(c, x, padding) ==
    LET c1 == CachePut(c, "FPad1D", "no_padding", padding = <<0, 0>>)
    IN  IF padding = <<0, 0>> THEN [y |-> x, cache |-> c1]
        ELSE [y |-> Tensor1(x.lead, Pad1(x.data, padding[1], padding[2])),
              cache |-> CachePut(c1, "FPad1D", "padding", padding)]

FPad1D_backward(c, g) ==
    LET no_padding == CacheGet(c, "no_padding")
        padding == CacheGet(c, "padding")
        c1 == CacheRead(CacheRead(c, "FPad1D", "no_padding"), "FPad1D", "padding")
    IN  IF Truthy(no_padding) THEN [dx |-> g, cache |-> c1]
        ELSE IF padding = None THEN [dx |-> Raised("TypeError"), cache |-> c1]
        ELSE [dx |-> Tensor1(g.lead, PySlice(g.data, padding[1][1], -padding[1][1])),
              cache |-> c1]

pad1d(x, padding) == FPad1D_forward(PseudoCache, x, padding).y

(* ----------------------------- FDilation2D ---------------------------- *)
FDilation2D_forward(c, x, dilation) ==
    LET c1 == CachePut(c, "FDilation2D", "no_dilation", dilation = <<1, 1>>)
        dil_shape == <<dilation[1] * x.h - 1, dilation[2] * x.w - 1>>
        \* y[..., ::dilation[0], ::dilation[1]] = x
        cell(i, j) ==
            IF (i - 1) % dilation[1] = 0 /\ (j - 1) % dilation[2] = 0
            THEN x.data[IF x.h = 1 THEN 1 ELSE ((i - 1) \div dilation[1]) + 1]
                       [IF x.w = 1 THEN 1 ELSE ((j - 1) \div dilation[2]) + 1]
            ELSE 0
    IN  IF dilation = <<1, 1>> THEN [y |-> x, cache |-> c1]
        ELSE IF ~ (/\ AssignFits(dil_shape[1], dilation[1], x.h)
                   /\ AssignFits(dil_shape[2], dilation[2], x.w))
        THEN [y |-> Raised("ValueError"), cache |-> c1]
        ELSE [y |-> Tensor2(x.lead, dil_shape[1], dil_shape[2],
                            [i \in 1..dil_shape[1] |->
                                [j \in 1..dil_shape[2] |-> cell(i, j)]]),
              cache |-> CachePut(c1, "FDilation2D", "dilation", dilation)]

FDilation2D_backward(c, g) ==
    LET no_dilation == CacheGet(c, "no_dilation")
        dilation == CacheGet(c, "dilation")
        c1 == CacheRead(CacheRead(c, "FDilation2D", "no_dilation"),
                        "FDilation2D", "dilation")
    IN  IF Truthy(no_dilation) THEN [dx |-> g, cache |-> c1]
        ELSE IF dilation = None THEN [dx |-> Raised("TypeError"), cache |-> c1]
        ELSE LET d == dilation[1]
                 rows == StridedSlice(g.data, d[1])
             IN  [dx |-> Tensor2(g.lead, StridedCount(g.h, d[1]), StridedCount(g.w, d[2]),
                                 [i \in 1..Len(rows) |-> StridedSlice(rows[i], d[2])]),
                  cache |-> c1]

dilate2d(x, dilation) == FDilation2D_forward(PseudoCache, x, dilation).y

(* ------------------------------- FPad2D ------------------------------- *)
FPad2D_forward(c, x, padding) ==
    LET c1 == CachePut(c, "FPad2D", "no_padding", padding = <<<<0, 0>>, <<0, 0>>>>)
        h == padding[1][1] + x.h + padding[1][2]
        w == padding[2][1] + x.w + padding[2][2]
        row(i) == IF i > padding[1][1] /\ i <= padding[1][1] + x.h
                  THEN Pad1(x.data[i - padding[1][1]], padding[2][1], padding[2][2])
                  ELSE Zeros(w)
    IN  IF padding = <<<<0, 0>>, <<0, 0>>>> THEN [y |-> x, cache |-> c1]
        ELSE [y |-> Tensor2(x.lead, h, w, [i \in 1..h |-> row(i)]),
              cache |-> CachePut(c1, "FPad2D", "padding", padding)]

FPad2D_backward(c, g) ==
    LET no_padding == CacheGet(c, "no_padding")
        padding == CacheGet(c, "padding")
        c1 == CacheRead(CacheRead(c, "FPad2D", "no_padding"), "FPad2D", "padding")
    IN  IF Truthy(no_padding) THEN [dx |-> g, cache |-> c1]
        ELSE IF padding = None THEN [dx |-> Raised("TypeError"), cache |-> c1]
        ELSE LET p == padding[1]
                 rows == PySlice(g.data, p[1][1], -p[1][2])
             IN  [dx |-> Tensor2(g.lead,
                                 SliceLen(g.h, p[1][1], -p[1][2]),
                                 SliceLen(g.w, p[2][1], -p[2][2]),
                                 [i \in 1..Len(rows) |->
                                     PySlice(rows[i], p[2][1], -p[2][2])]),
                  cache |-> c1]

pad2d(x, padding) == FPad2D_forward(PseudoCache, x, padding).y

(* ------------------------- tensor primitives -------------------------- *)
\* Sum of the elements of a sequence
SumOver(s) ==
    LET acc[j \in 0..Len(s)] == IF j = 0 THEN 0 ELSE acc[j - 1] + s[j]
    IN  acc[Len(s)]

\* flip(x, -1)
flip(x) == Tensor1(x.lead, [i \in 1..Len(x.data) |-> x.data[Len(x.data) + 1 - i]])

\* insert_dim(x, axis) for an axis among the leading axes (0-based)
insert_dim(x, axis) ==
    Tensor1(SubSeq(x.lead, 1, axis) \o <<1>> \o SubSeq(x.lead, axis + 1, Len(x.lead)),
            x.data)

\* cp_sum(x, axis) over one leading axis (0-based): equal slices add up
cp_sum(x, axis) ==
    Tensor1(SubSeq(x.lead, 1, axis) \o SubSeq(x.lead, axis + 2, Len(x.lead)),
            [i \in 1..Len(x.data) |-> x.lead[axis + 1] * x.data[i]])

\* Shape a aligned to n axes: broadcasting lines shapes up from the last axis
\* and reads a missing leading axis as 1
AlignShape(a, n) == [i \in 1..n |-> IF i <= n - Len(a) THEN 1 ELSE a[i - (n - Len(a))]]

\* Whether shape a broadcasts against shape b
Broadcastable(a, b) ==
    LET n == Max(Len(a), Len(b))
    IN  \A i \in 1..n :
            \/ AlignShape(a, n)[i] = AlignShape(b, n)[i]
            \/ AlignShape(a, n)[i] = 1
            \/ AlignShape(b, n)[i] = 1

BroadcastShape(a, b) ==
    LET n == Max(Len(a), Len(b))
    IN  [i \in 1..n |-> Max(AlignShape(a, n)[i], AlignShape(b, n)[i])]

\* broadcast_to(x, shape)
broadcast_to(x, shape) ==
    IF /\ Len(shape) = Len(Shape1(x))
       /\ \A i \in 1..Len(shape) : Shape1(x)[i] = shape[i] \/ Shape1(x)[i] = 1
    THEN Tensor1(SubSeq(shape, 1, Len(shape) - 1),
                 [i \in 1..shape[Len(shape)] |->
                     IF Len(x.data) = 1 THEN x.data[1] ELSE x.data[i]])
    ELSE Raised("ValueError")

\* pad_to_shape(x, shape): zero-pad the end of every axis up to `shape`; a
\* target smaller than the tensor asks for a negative width, which pad rejects.
pad_to_shape(x, shape) ==
    IF ~ x.ok THEN x
    ELSE IF Len(shape) # Len(Shape1(x)) THEN Raised("IndexError")
    ELSE IF \E i \in 1..Len(shape) : shape[i] < Shape1(x)[i] THEN Raised("ValueError")
    ELSE IF SubSeq(shape, 1, Len(shape) - 1) # x.lead THEN Raised("NotModelled")
    ELSE Tensor1(x.lead, Pad1(x.data, 0, shape[Len(shape)] - Len(x.data)))

\* ifft(fft(x) * fft(f, n=len(x))).real on the last axis: the circular
\* convolution of x with f cut or zero-filled to len(x)
FFTProduct(xd, fd) ==
    LET n == Len(xd)
        fn(j) == IF j < Len(fd) THEN fd[j + 1] ELSE 0
    IN  [k \in 1..n |-> SumOver([j \in 1..n |-> fn(j - 1) * xd[((k - j) % n) + 1]])]

(* ---------------- functional.py: convolve1d and its helpers ----------- *)
__pad1d_from_str(padding, kernel_size) ==
    CASE padding = "causal" -> <<kernel_size - 1, 0>>
      [] padding = "full" -> <<kernel_size - 1, kernel_size - 1>>
      [] padding = "same" -> <<kernel_size \div 2, kernel_size \div 2>>
      [] OTHER -> <<0, 0>>

__pad1d(x, padding) == Tensor1(x.lead, Pad1(x.data, padding[1], padding[2]))

__dilate1d(x, dilation) ==
    IF dilation = 1 THEN x
    ELSE LET dilated_shape == dilation * Len(x.data) - 1
         IN  Tensor1(x.lead, StridedAssign(Zeros(dilated_shape), dilation, x.data))

__convolve1d(x, f, stride) ==
    LET conv == FFTProduct(x.data, f.data)
        out == Len(x.data) - Len(f.data) + 1
    IN  IF ~ Broadcastable(x.lead, f.lead) THEN Raised("ValueError")
        ELSE Tensor1(BroadcastShape(x.lead, f.lead),
                     StridedSlice(PySlice(conv, -out, Len(conv)), stride))

\* x.ndim
ndim(x) == Len(x.lead) + 1

convolve1d(x, f, padding, stride, dilation) ==
    IF ndim(x) # ndim(f) THEN Raised("ShapeError")
    ELSE LET f1 == IF dilation > 1 THEN __dilate1d(f, dilation) ELSE f
             x1 == IF padding # "valid"
                   THEN __pad1d(x, __pad1d_from_str(padding, Len(f1.data)))
                   ELSE x
         IN  __convolve1d(x1, f1, stride)

(* ------------------- convolutions.py: _FConvolution1D ----------------- *)
_pad1d_from_str(padding, kernel_size) ==
    IF padding = "valid" THEN <<0, 0>>
    ELSE <<kernel_size \div 2, kernel_size \div 2>>

\* convolve1d_fft(x, f): the FFT product, cut to its trailing len(x)-len(f)+1
convolve1d_fft(x, f) ==
    IF ~ x.ok THEN x
    ELSE IF ~ Broadcastable(x.lead, f.lead) THEN Raised("ValueError")
    ELSE LET conv == FFTProduct(x.data, f.data)
             out == Len(x.data) - Len(f.data) + 1
         IN  Tensor1(BroadcastShape(x.lead, f.lead), PySlice(conv, -out, Len(conv)))

_FConvolution1D_forward(c, x, f, stride) ==
    LET f_flipped == flip(f)
        conv == convolve1d_fft(x, f_flipped)
        out == Tensor1(conv.lead, StridedSlice(conv.data, stride))
        c1 == CachePut(c, "_FConvolution1D", "x", x)
        c2 == CachePut(c1, "_FConvolution1D", "f", f)
        c3 == CachePut(c2, "_FConvolution1D", "stride", stride)
        c4 == CachePut(c3, "_FConvolution1D", "conv_shape", Shape1(conv))
    IN  [y |-> out, cache |-> c4]

\* lines 229-230: the gradient with the stride undone
_FConvolution1D_undo_stride(g, stride, conv_shape) ==
    pad_to_shape(dilate1d(g, stride), conv_shape)

_FConvolution1D_backward(c, g) ==
    LET x == CacheGet(c, "x")[1]
        f == CacheGet(c, "f")[1]
        stride == CacheGet(c, "stride")[1]
        conv_shape == CacheGet(c, "conv_shape")[1]
        c1 == CacheRead(CacheRead(CacheRead(CacheRead(c,
                  "_FConvolution1D", "x"), "_FConvolution1D", "f"),
                  "_FConvolution1D", "stride"), "_FConvolution1D", "conv_shape")
        dy1 == _FConvolution1D_undo_stride(g, stride, conv_shape)
        dy2 == IF dy1.ok THEN pad1d(dy1, <<Len(f.data) - 1, Len(f.data) - 1>>) ELSE dy1
        dx == convolve1d_fft(dy2, f)
        dy3 == IF dy2.ok THEN flip(dy2) ELSE dy2
        df == convolve1d_fft(dy3, x)
    IN  [dx |-> dx, df |-> df, dilated |-> dilate1d(g, stride), undone |-> dy1,
         cache |-> c1]

(* ---------------------------- FConvolution1D -------------------------- *)
\* FConvolution1D.forward(cache, x, f, b, padding, stride, dilation) as one call
FConvolution1D_forward(c, x, f, b, padding, stride, dilation) ==
    LET r1 == FDilation1D_forward(c, f, dilation)
        f_ext == insert_dim(r1.y, 0)
        p == _pad1d_from_str(padding, Len(f_ext.data))
        r2 == FPad1D_forward(r1.cache, x, p)
        x_ext == insert_dim(r2.y, 1)
        r3 == _FConvolution1D_forward(r2.cache, x_ext, f_ext, stride)
        y0 == cp_sum(r3.y, 2)
        c1 == IF b # None THEN CachePut(r3.cache, "FConvolution1D", "b", b # None)
              ELSE r3.cache
        b_fits == \/ b = None
                  \/ Len(b[1].data) = 1
                  \/ Len(b[1].data) = y0.lead[2]
        out == IF b # None
               THEN Tensor1(y0.lead, [i \in 1..Len(y0.data) |-> y0.data[i] + b[1].data[1]])
               ELSE y0
    IN  IF b_fits
        THEN [y |-> out,
              cache |-> CachePut(c1, "FConvolution1D", "conv_shape", Shape1(r3.y))]
        ELSE [y |-> Raised("ValueError"), cache |-> c1]

\* FConvolution1D.backward(cache, dy) as one call: the gradients dx, df, db, or
\* the exception a step raised
FConvolution1D_backward(c, g) ==
    LET b == CacheGet(c, "b")
        conv_shape == CacheGet(c, "conv_shape")[1]
        c1 == CacheRead(CacheRead(c, "FConvolution1D", "b"), "FConvolution1D", "conv_shape")
        dy_ext == broadcast_to(insert_dim(g, 2), conv_shape)
        r == _FConvolution1D_backward(c1, dy_ext)
        rp == FPad1D_backward(r.cache, cp_sum(r.dx, 1))
        rd == FDilation1D_backward(rp.cache, cp_sum(r.df, 0))
        db == IF Truthy(b)
              THEN Some(Tensor1(<<>>, [i \in 1..g.lead[2] |-> g.lead[1] * SumOver(g.data)]))
              ELSE None
    IN  IF ~ dy_ext.ok THEN [grads |-> dy_ext, cache |-> c1]
        ELSE IF ~ (r.dx.ok /\ r.df.ok)
        THEN [grads |-> IF r.dx.ok THEN r.df ELSE r.dx, cache |-> r.cache]
        ELSE [grads |-> [dx |-> rp.dx, df |-> rd.dx, db |-> db], cache |-> rd.cache]

(* ---------------------------- 2D convolution -------------------------- *)
\* flip(x, (-2, -1))
flip2(x) ==
    Tensor2(x.lead, x.h, x.w,
            [i \in 1..x.h |-> [j \in 1..x.w |-> x.data[x.h + 1 - i][x.w + 1 - j]]])

\* insert_dim(x, axis) for an axis among the leading axes of a 2D tensor
insert_dim2(x, axis) ==
    Tensor2(SubSeq(x.lead, 1, axis) \o <<1>> \o SubSeq(x.lead, axis + 1, Len(x.lead)),
            x.h, x.w, x.data)

\* cp_sum(x, axis) over one leading axis of a 2D tensor: equal slices add up
cp_sum2(x, axis) ==
    Tensor2(SubSeq(x.lead, 1, axis) \o SubSeq(x.lead, axis + 2, Len(x.lead)), x.h, x.w,
            [i \in 1..x.h |-> [j \in 1..x.w |-> x.lead[axis + 1] * x.data[i][j]]])

\* Entry (k, l) of ifft2d(fft2d(x) * fft2d(f, s=x.shape[-2:])).real: the
\* circular convolution of x with f cut or zero-filled to the shape of x
FFTProduct2(x, f, k, l) ==
    SumOver([a \in 1..Min(f.h, x.h) |->
        SumOver([b \in 1..Min(f.w, x.w) |->
            f.data[a][b] * x.data[((k - a) % x.h) + 1][((l - b) % x.w) + 1]])])

\* conv[..., -out_y:, -out_x:] of the FFT product
ConvSlice(x, f) ==
    LET out_y == x.h - f.h + 1
        out_x == x.w - f.w + 1
        ys == PySlice([i \in 1..x.h |-> i], 0 - out_y, x.h)
        xs == PySlice([j \in 1..x.w |-> j], 0 - out_x, x.w)
    IN  IF ~ Broadcastable(x.lead, f.lead) THEN Raised("ValueError")
        ELSE Tensor2(BroadcastShape(x.lead, f.lead), Len(ys), Len(xs),
                     [i \in 1..Len(ys) |->
                         [j \in 1..Len(xs) |-> FFTProduct2(x, f, ys[i], xs[j])]])

\* x[..., ::strides[0], ::strides[1]]
StridedSlice2(x, strides) ==
    IF ~ x.ok THEN x
    ELSE LET rows == StridedSlice(x.data, strides[1])
         IN  Tensor2(x.lead, Len(rows), StridedCount(x.w, strides[2]),
                     [i \in 1..Len(rows) |-> StridedSlice(rows[i], strides[2])])

\* convolve2d_fft(x, f)
convolve2d_fft(x, f) == ConvSlice(x, f)

\* functional.py: __pad2d_from_str(padding, kernel_size)
__pad2d_from_str(padding, kernel_size) ==
    CASE padding = "full" ->
            <<<<kernel_size - 1, kernel_size - 1>>, <<kernel_size - 1, kernel_size - 1>>>>
      [] padding = "same" ->
            <<<<kernel_size \div 2, kernel_size \div 2>>,
              <<kernel_size \div 2, kernel_size \div 2>>>>
      [] OTHER -> <<<<0, 0>>, <<0, 0>>>>

\* functional.py: __pad2d(x, padding)
__pad2d(x, padding) ==
    Tensor2(x.lead, padding[1][1] + x.h + padding[1][2], padding[2][1] + x.w + padding[2][2],
            [i \in 1..(padding[1][1] + x.h + padding[1][2]) |->
                IF i > padding[1][1] /\ i <= padding[1][1] + x.h
                THEN Pad1(x.data[i - padding[1][1]], padding[2][1], padding[2][2])
                ELSE Zeros(padding[2][1] + x.w + padding[2][2])])

\* functional.py: __dilate2d(x, dilation)
__dilate2d(x, dilation) ==
    LET H == dilation[1] * x.h - 1
        W == dilation[2] * x.w - 1
    IN  IF ~ (AssignFits(H, dilation[1], x.h) /\ AssignFits(W, dilation[2], x.w))
        THEN Raised("ValueError")
        ELSE Tensor2(x.lead, H, W,
                 [i \in 1..H |-> [j \in 1..W |->
                     IF (i - 1) % dilation[1] = 0 /\ (j - 1) % dilation[2] = 0
                     THEN x.data[IF x.h = 1 THEN 1 ELSE ((i - 1) \div dilation[1]) + 1]
                                [IF x.w = 1 THEN 1 ELSE ((j - 1) \div dilation[2]) + 1]
                     ELSE 0]])

\* functional.py: __convolve2d(x, f, strides)
__convolve2d(x, f, strides) == StridedSlice2(ConvSlice(x, f), strides)

\* functional.py, lines 421-423: the padding convolve2d applies to x, f1 being
\* the dilated filter
functional_convolve2d_padding(f1, padding) ==
    IF padding # "valid" THEN __pad2d_from_str(padding, f1.w)
    ELSE <<<<0, 0>>, <<0, 0>>>>

\* functional.py: convolve2d(x, f, padding, stride, dilation); p is the padding
\* applied to x
functional_convolve2d(x, f, padding, stride, dilation) ==
    IF Len(Shape2(x)) # Len(Shape2(f)) THEN [y |-> Raised("ShapeError")]
    ELSE LET f1 == IF dilation > 1 THEN __dilate2d(f, <<dilation, dilation>>) ELSE f
         IN  IF ~ f1.ok THEN [y |-> f1]
             ELSE [y |-> __convolve2d(__pad2d(x, functional_convolve2d_padding(f1, padding)),
                                      f1, <<stride, stride>>),
                   p |-> functional_convolve2d_padding(f1, padding),
                   f |-> f1]

\* convolutions.py: _pad2d_from_str(padding, kernel_size)
_pad2d_from_str(padding, kernel_size) ==
    IF padding = "valid" THEN <<<<0, 0>>, <<0, 0>>>>
    ELSE <<<<kernel_size \div 2, kernel_size \div 2>>,
           <<kernel_size \div 2, kernel_size \div 2>>>>

\* _FConvolution2D.forward(cache, x, f, strides)
_FConvolution2D_forward(c, x, f, strides) ==
    LET f_flipped == flip2(f)
        conv == convolve2d_fft(x, f_flipped)
        c1 == CachePut(c, "_FConvolution2D", "x", x)
        c2 == CachePut(c1, "_FConvolution2D", "f", f)
        c3 == CachePut(c2, "_FConvolution2D", "strides", strides)
        c4 == CachePut(c3, "_FConvolution2D", "conv_shape", Shape2(conv))
    IN  [y |-> StridedSlice2(conv, strides), conv |-> conv, cache |-> c4]

\* FConvolution2D.forward(cache, x, f, b, padding, stride, dilation); p is the
\* padding passed to FPad2D.forward and f the dilated filter
FConvolution2D_forward(c, x, f, b, padding, stride, dilation) ==
    LET r1 == FDilation2D_forward(c, f, <<dilation, dilation>>)
        f_ext == insert_dim2(r1.y, 0)
        p == _pad2d_from_str(padding, f_ext.w)
        r2 == FPad2D_forward(r1.cache, x, p)
        x_ext == insert_dim2(r2.y, 1)
        r3 == _FConvolution2D_forward(r2.cache, x_ext, f_ext, <<stride, stride>>)
        y0 == cp_sum2(r3.y, 2)
        c1 == IF b # None THEN CachePut(r3.cache, "FConvolution2D", "b", b # None)
              ELSE r3.cache
        b_fits == \/ b = None
                  \/ Len(b[1].data) = 1
                  \/ Len(b[1].data) = y0.lead[2]
        out == IF b # None
               THEN Tensor2(y0.lead, y0.h, y0.w,
                            [i \in 1..y0.h |-> [j \in 1..y0.w |->
                                y0.data[i][j] + b[1].data[1]]])
               ELSE y0
    IN  IF ~ r1.y.ok THEN [y |-> r1.y, cache |-> r1.cache]
        ELSE IF ~ r3.y.ok THEN [y |-> r3.y, cache |-> r2.cache, p |-> p, f |-> r1.y]
        ELSE IF ~ b_fits THEN [y |-> Raised("ValueError"), cache |-> c1, p |-> p, f |-> r1.y]
        ELSE [y |-> out,
              cache |-> CachePut(c1, "FConvolution2D", "conv_shape", Shape2(r3.conv)),
              p |-> p, f |-> r1.y]

(* ------------------------------- pooling ------------------------------ *)
\* The greatest element of a non-empty set of integers
SetMax(S) == CHOOSE m \in S : \A k \in S : k <= m

RECURSIVE GCD(_, _)
GCD(a, b) == IF b = 0 THEN a ELSE GCD(b, a % b)

\* The quotient n / d (d > 0) of a true division, as a reduced fraction <<n', d'>>
Frac(n, d) == <<n \div GCD(n, d), d \div GCD(n, d)>>

\* repeat(s, n) along one axis: every element n times in a row
Repeat(s, n) == [i \in 1..(Len(s) * n) |-> s[((i - 1) \div n) + 1]]

\* repeat(x, n, -1)
repeat_cols(x, n) ==
    Tensor2(x.lead, x.h, x.w * n, [i \in 1..x.h |-> Repeat(x.data[i], n)])

\* repeat(x, n, -2)
repeat_rows(x, n) == Tensor2(x.lead, x.h * n, x.w, Repeat(x.data, n))

\* pad_to_shape(x, shape) on the last two axes: zeros appended to every axis;
\* a target smaller than the tensor asks for a negative width, which pad rejects.
pad_to_shape2(x, shape) ==
    LET H == shape[Len(shape) - 1]
        W == shape[Len(shape)]
    IN  IF H < x.h \/ W < x.w THEN Raised("ValueError")
        ELSE Tensor2(x.lead, H, W,
                     [i \in 1..H |-> [j \in 1..W |->
                         IF i <= x.h /\ j <= x.w THEN x.data[i][j] ELSE 0]])

FUpsample2D_forward(x, scaling_factors, shape) ==
    LET f1 == scaling_factors[1]
        f2 == scaling_factors[2]
        x1 == repeat_rows(repeat_cols(x, f1), f2)
    IN  IF Shape2(x1) = shape THEN x1 ELSE pad_to_shape2(x1, shape)

upsample2d(x, scaling_factors, shape) == FUpsample2D_forward(x, scaling_factors, shape)

\* functional.py: upsample2d(x, scaling_factors, shape) with axes = (-2, -1)
functional_upsample2d(x, scaling_factors, shape) ==
    LET sf1 == scaling_factors[1]
        sf2 == scaling_factors[2]
        x_str == repeat_cols(repeat_rows(x, sf1), sf2)
    IN  IF Shape2(x_str) = shape THEN x_str ELSE pad_to_shape2(x_str, shape)

\* x[..., :trunc_y, :trunc_x].to_shape(pool_shape)[i, a, j, b] (1-based): the
\* element of the row-major reshape of the truncated tensor
Pooled(x, kernel_size, i, a, j, b) ==
    LET kh == kernel_size[1]
        kw == kernel_size[2]
        w == x.w \div kw
        trunc_x == w * kw
        n == (((i - 1) * kh + (a - 1)) * w + (j - 1)) * kw + (b - 1)
    IN  x.data[(n \div trunc_x) + 1][(n % trunc_x) + 1]

\* cp_max(x_trunc.to_shape(pool_shape), axis=(-3, -1))
PoolMax(x, kernel_size) ==
    Tensor2(x.lead, x.h \div kernel_size[1], x.w \div kernel_size[2],
            [i \in 1..(x.h \div kernel_size[1]) |-> [j \in 1..(x.w \div kernel_size[2]) |->
                SetMax({Pooled(x, kernel_size, i, a, j, b) :
                            a \in 1..kernel_size[1], b \in 1..kernel_size[2]})]])

\* mean(x_trunc.to_shape(pool_shape), axis=(-3, -1))
PoolMean(x, kernel_size) ==
    Tensor2(x.lead, x.h \div kernel_size[1], x.w \div kernel_size[2],
            [i \in 1..(x.h \div kernel_size[1]) |-> [j \in 1..(x.w \div kernel_size[2]) |->
                Frac(SumOver([a \in 1..kernel_size[1] |->
                         SumOver([b \in 1..kernel_size[2] |->
                             Pooled(x, kernel_size, i, a, j, b)])]),
                     kernel_size[1] * kernel_size[2])]])

\* upsampled dy * (x == y_ups)
MaxMask(dy_ups, x, y_ups) ==
    IF ~ dy_ups.ok THEN dy_ups
    ELSE IF ~ y_ups.ok THEN y_ups
    ELSE Tensor2(x.lead, x.h, x.w,
                 [i \in 1..x.h |-> [j \in 1..x.w |->
                     dy_ups.data[i][j] * (IF x.data[i][j] = y_ups.data[i][j] THEN 1 ELSE 0)]])

\* upsampled dy / area
DivideBy(dy_ups, area) ==
    IF ~ dy_ups.ok THEN dy_ups
    ELSE Tensor2(dy_ups.lead, dy_ups.h, dy_ups.w,
                 [i \in 1..dy_ups.h |-> [j \in 1..dy_ups.w |-> Frac(dy_ups.data[i][j], area)]])

FMaxPooling2D_forward(c, x, kernel_size) ==
    LET out == PoolMax(x, kernel_size)
        c1 == CachePut(c, "FMaxPooling2D", "x", x)
        c2 == CachePut(c1, "FMaxPooling2D", "kernel_size", kernel_size)
        c3 == CachePut(c2, "FMaxPooling2D", "y", out)
    IN  [y |-> out, cache |-> c3]

FMaxPooling2D_backward(c, g) ==
    LET x == CacheGet(c, "x")[1]
        kernel_size == CacheGet(c, "kernel_size")[1]
        y0 == CacheGet(c, "y")[1]
        c1 == CacheRead(CacheRead(CacheRead(c, "FMaxPooling2D", "x"),
                  "FMaxPooling2D", "kernel_size"), "FMaxPooling2D", "y")
        y_ups == upsample2d(y0, kernel_size, Shape2(x))
    IN  [dx |-> MaxMask(upsample2d(g, kernel_size, Shape2(x)), x, y_ups), cache |-> c1]

FAvgPooling2D_forward(c, x, kernel_size) ==
    LET out == PoolMean(x, kernel_size)
        c1 == CachePut(c, "FAvgPooling2D", "x_shape", Shape2(x))
        c2 == CachePut(c1, "FAvgPooling2D", "kernel_size", kernel_size)
    IN  [y |-> out, cache |-> c2]

FAvgPooling2D_backward(c, g) ==
    LET x_shape == CacheGet(c, "x_shape")[1]
        kernel_size == CacheGet(c, "kernel_size")[1]
        c1 == CacheRead(CacheRead(c, "FAvgPooling2D", "x_shape"),
                        "FAvgPooling2D", "kernel_size")
    IN  [dx |-> DivideBy(upsample2d(g, kernel_size, x_shape),
                         kernel_size[1] * kernel_size[2]),
         cache |-> c1]

\* functional.py: maxpooling2d(x, kernel_size, return_backward_fn): the output
\* and, when asked for, what the backward closure holds
functional_maxpooling2d(x, kernel_size, return_backward_fn) ==
    LET out == PoolMax(x, kernel_size)
    IN  [y |-> out,
         backward |-> IF return_backward_fn
                      THEN Some([x |-> x, kernel_size |-> kernel_size,
                                 y_ups |-> functional_upsample2d(out, kernel_size, Shape2(x))])
                      ELSE None]

\* the closure of maxpooling2d applied to dy
functional_maxpooling2d_backward(closure, g) ==
    MaxMask(functional_upsample2d(g, closure.kernel_size, Shape2(closure.x)),
            closure.x, closure.y_ups)

\* functional.py: avgpooling2d(x, kernel_size, return_backward_fn)
functional_avgpooling2d(x, kernel_size, return_backward_fn) ==
    LET out == PoolMean(x, kernel_size)
    IN  [y |-> out,
         backward |-> IF return_backward_fn
                      THEN Some([x |-> x, kernel_size |-> kernel_size])
                      ELSE None]

\* the closure of avgpooling2d applied to dy
functional_avgpooling2d_backward(closure, g) ==
    DivideBy(functional_upsample2d(g, closure.kernel_size, Shape2(closure.x)),
             closure.kernel_size[1] * closure.kernel_size[2])

(* ------------------------- functional.py: linear ---------------------- *)
\* Product of the elements of a sequence
ProdOver(s) ==
    LET acc[j \in 0..Len(s)] == IF j = 0 THEN 1 ELSE acc[j - 1] * s[j]
    IN  acc[Len(s)]

\* A tensor (..., Bn, C) of equal rows seen as matrices over its last two axes
AsMatrix(t) ==
    Tensor2(SubSeq(t.lead, 1, Len(t.lead) - 1), t.lead[Len(t.lead)], Len(t.data),
            [r \in 1..t.lead[Len(t.lead)] |-> t.data])

\* Matrices of equal rows back as a tensor (..., Bn, C)
FromMatrix(m) == Tensor1(m.lead \o <<m.h>>, m.data[1])

\* Tensor.T: the last two axes swapped
Transposed(m) ==
    Tensor2(m.lead, m.w, m.h, [i \in 1..m.w |-> [j \in 1..m.h |-> m.data[j][i]]])

\* a @ b on the last two axes, the leading axes broadcast
MatMul(a, b) ==
    IF a.w # b.h \/ ~ Broadcastable(a.lead, b.lead) THEN Raised("ValueError")
    ELSE Tensor2(BroadcastShape(a.lead, b.lead), a.h, b.w,
                 [i \in 1..a.h |-> [j \in 1..b.w |->
                     SumOver([k \in 1..a.w |-> a.data[i][k] * b.data[k][j]])]])

\* m.sum(axis=(0, ..., k-1)) for matrices that are equal along the leading axes
SumLeading(m, k) ==
    Tensor2(SubSeq(m.lead, k + 1, Len(m.lead)), m.h, m.w,
            [i \in 1..m.h |-> [j \in 1..m.w |->
                ProdOver(SubSeq(m.lead, 1, k)) * m.data[i][j]]])

\* t.sum(axis=(0, ..., k-1)) for a tensor of equal rows
SumLeading1(t, k) ==
    Tensor1(SubSeq(t.lead, k + 1, Len(t.lead)),
            [i \in 1..Len(t.data) |-> ProdOver(SubSeq(t.lead, 1, k)) * t.data[i]])

\* y = x @ w.T, then y += b
LinearOut(x, w, b) ==
    LET xw == FromMatrix(MatMul(AsMatrix(x), Transposed(w)))
    IN  IF b = None THEN xw
        ELSE Tensor1(xw.lead, [o \in 1..Len(xw.data) |-> xw.data[o] + b[1].data[o]])

\* dx = dy @ w
LinearDx(closure, g) == FromMatrix(MatMul(AsMatrix(g), closure.w))

\* lines 264-273: dw = dy.T @ x, summed over the batch axes when x.ndim > 2
LinearDw_Unsummed(closure, g) ==
    IF closure.w.requires_grad
    THEN Some(MatMul(Transposed(AsMatrix(g)), AsMatrix(closure.x)))
    ELSE None

LinearDw(closure, g) ==
    IF closure.w.requires_grad
    THEN LET dw == MatMul(Transposed(AsMatrix(g)), AsMatrix(closure.x))
         IN  IF ndim(closure.x) > 2
             THEN Some(SumLeading(dw, ndim(closure.x) - 2))
             ELSE Some(dw)
    ELSE None

\* lines 275-282: db = dy.sum(axis=batch axes)
LinearDb(closure, g) ==
    IF closure.b # None /\ closure.b[1].requires_grad
    THEN Some(SumLeading1(g, ndim(closure.x) - 1))
    ELSE None

\* linear that adds the bias only when the backward function is asked for
functional_linear_BiasOnlyWithBackward(x, w, b, return_backward_fn) ==
    [y |-> LinearOut(x, w, IF return_backward_fn THEN b ELSE None),
     backward |-> IF return_backward_fn THEN Some([x |-> x, w |-> w, b |-> b]) ELSE None]

\* linear(x, w, b, return_backward_fn): the output and, when asked for, what
\* the backward closure holds
functional_linear(x, w, b, return_backward_fn) ==
    [y |-> LinearOut(x, w, b),
     backward |-> IF return_backward_fn THEN Some([x |-> x, w |-> w, b |-> b]) ELSE None]

\* the closure of linear applied to dy, with a zero-filled dw in place of None
functional_linear_backward_ZeroDw(closure, g) ==
    [dx |-> LinearDx(closure, g),
     dw |-> Some(Tensor2(<<>>, closure.w.h, closure.w.w,
                         [i \in 1..closure.w.h |-> [j \in 1..closure.w.w |-> 0]])),
     db |-> LinearDb(closure, g)]

\* the closure of linear applied to dy
functional_linear_backward(closure, g) ==
    [dx |-> LinearDx(closure, g), dw |-> LinearDw(closure, g), db |-> LinearDb(closure, g)]

(* ------------------------------ embedding ----------------------------- *)
\* A tensor of any rank: its shape and its elements in row-major order
Nd(shape, data) == [ok |-> TRUE, shape |-> AsSeq(shape), data |-> AsSeq(data)]

\* Number of elements of a tensor of the given shape
Size(shape) == ProdOver(shape)

\* one_hot_encode(x, n): a new last axis of length n, 1 at the index, else 0
one_hot_encode(x, n) ==
    Nd(x.shape \o <<n>>,
       [k \in 1..(Size(x.shape) * n) |->
           IF x.data[((k - 1) \div n) + 1] = (k - 1) % n THEN 1 ELSE 0])

\* Tensor.T of a tensor of rank >= 2: the last two axes swapped
TransposedNd(a) ==
    LET r == Len(a.shape)
        m == a.shape[r - 1]
        n == a.shape[r]
    IN  Nd(SubSeq(a.shape, 1, r - 2) \o <<n, m>>,
           [k \in 1..Len(a.data) |->
               LET q == (k - 1) \div (m * n)
                   j == ((k - 1) % (m * n)) \div m
                   i == (k - 1) % m
               IN  a.data[q * m * n + i * n + j + 1]])

\* a @ b for tensors of rank >= 2 whose leading axes are equal, or where b has
\* none (b is then used for every matrix of a)
MatMulNd(a, b) ==
    LET ra == Len(a.shape)
        rb == Len(b.shape)
        ba == SubSeq(a.shape, 1, ra - 2)
        bb == SubSeq(b.shape, 1, rb - 2)
        m == a.shape[ra - 1]
        kk == a.shape[ra]
        n == b.shape[rb]
    IN  IF kk # b.shape[rb - 1] \/ (bb # <<>> /\ bb # ba) THEN Raised("ValueError")
        ELSE Nd(ba \o <<m, n>>,
                [p \in 1..(Size(ba) * m * n) |->
                    LET q == (p - 1) \div (m * n)
                        i == ((p - 1) % (m * n)) \div n
                        j == (p - 1) % n
                        qb == IF bb = <<>> THEN 0 ELSE q
                    IN  SumOver([c \in 1..kk |->
                            a.data[q * m * kk + i * kk + c]
                                * b.data[qb * kk * n + (c - 1) * n + j + 1]])])

\* a.sum(axis=(0, ..., k-1)); with k = 0 (axis=()) nothing is summed
SumFirstAxes(a, k) ==
    LET outer == Size(SubSeq(a.shape, 1, k))
        rest == SubSeq(a.shape, k + 1, Len(a.shape))
        inner == Size(rest)
    IN  Nd(rest, [j \in 1..inner |->
                     SumOver([q \in 1..outer |-> a.data[(q - 1) * inner + j]])])

\* embedding_table[x]: row x[p] of the table at every position p of x
Gather(embedding_table, x) ==
    LET E == embedding_table.shape[2]
    IN  Nd(x.shape \o <<E>>,
           [k \in 1..(Size(x.shape) * E) |->
               embedding_table.data[x.data[((k - 1) \div E) + 1] * E + ((k - 1) % E) + 1]])

\* typing.is_integer(dtype)
is_integer(dtype) == dtype \in {"int8", "int16", "int32", "int64"}

\* functional.py: lookup_embedding(x, embedding_table, return_backward_fn)
lookup_embedding(x, embedding_table, return_backward_fn) ==
    IF x.dtype \notin {"int32", "int64"}
    THEN [y |-> Raised("ValueError"), backward |-> None]
    ELSE LET x1 == one_hot_encode(x, embedding_table.shape[1])
         IN  [y |-> MatMulNd(x1, embedding_table),
              backward |-> IF return_backward_fn
                           THEN Some([x |-> x1, embedding_table |-> embedding_table])
                           ELSE None]

\* the backward function of lookup_embedding applied to dy
lookup_embedding_backward(closure, g) ==
    IF closure.embedding_table.requires_grad
    THEN Some(SumFirstAxes(MatMulNd(TransposedNd(closure.x), g), 1))
    ELSE None

\* EmbeddingFn.forward with the dtype check after the gather and the cache write
EmbeddingFn_forward_CheckLast(c, x, embedding_table) ==
    [y |-> IF is_integer(x.dtype) THEN Gather(embedding_table, x) ELSE Raised("ValueError"),
     cache |-> CachePut(c, "EmbeddingFn", "stack",
                        [x |-> x, shape |-> embedding_table.shape])]

\* EmbeddingFn.forward(cache, x, embedding_table)
EmbeddingFn_forward(c, x, embedding_table) ==
    IF ~ is_integer(x.dtype) THEN [y |-> Raised("ValueError"), cache |-> c]
    ELSE [y |-> Gather(embedding_table, x),
          cache |-> CachePut(c, "EmbeddingFn", "stack",
                             [x |-> x, shape |-> embedding_table.shape])]

\* EmbeddingFn.backward(cache, dy)
EmbeddingFn_backward(c, g) ==
    LET top == CacheGet(c, "stack")[1]
        x == one_hot_encode(top.x, top.shape[1])
    IN  [y |-> SumFirstAxes(MatMulNd(TransposedNd(x), g), Len(x.shape) - 2),
         cache |-> CacheRead(c, "EmbeddingFn", "stack")]

\* embedding(x, embedding_table): forward on a PseudoCache
embedding(x, embedding_table) == EmbeddingFn_forward(PseudoCache, x, embedding_table).y

\* zeros_like(x)
zeros_like(x) == Nd(x.shape, [k \in 1..Len(x.data) |-> 0])

\* Embedding.forward(x): self is [w, grad, training]
Embedding_forward(self, x) ==
    IF Len(x.shape) # 2 THEN [y |-> Raised("ShapeError"), backward |-> None]
    ELSE LET r == lookup_embedding(x, self.w, self.training)
         IN  [y |-> r.y,
              backward |-> IF r.y.ok /\ self.training
                           THEN Some([x |-> x, grad_func |-> r.backward[1]])
                           ELSE None]

\* Embedding._backward(dy): the gradient slot of w after the call and the
\* returned zeros_like(x)
Embedding_backward(self, closure, g) ==
    [grad |-> IF self.w.requires_grad
              THEN LET dw == lookup_embedding_backward(closure.grad_func, g)[1]
                   IN  Nd(self.grad.shape, [k \in 1..Len(self.grad.data) |->
                                               self.grad.data[k] + dw.data[k]])
              ELSE self.grad,
     dx |-> zeros_like(closure.x)]

(* ------------------------- temperature_softmax ------------------------ *)
\* x.max(axis=axis, keepdims=True) of a matrix, read at position (i, j)
AxisMax(x, axis, i, j) ==
    IF axis \in {-1, 1}
    THEN SetMax({x.data[i][c] : c \in 1..x.w})
    ELSE SetMax({x.data[r][j] : r \in 1..x.h})

\* n / (tn / td) as a reduced fraction with a positive denominator
DivideByTemperature(n, temperature) ==
    IF temperature[1] < 0
    THEN Frac((0 - n) * temperature[2], 0 - temperature[1])
    ELSE Frac(n * temperature[2], temperature[1])

\* The softmax over an axis is kept as the exponents e of its entries: entry
\* (i, j) stands for exp(e[i][j]) divided by the sum of exp(e) along the axis
SoftmaxOf(x, axis, exponents) ==
    [ok |-> TRUE, lead |-> x.lead, h |-> x.h, w |-> x.w, axis |-> axis,
     exponents |-> exponents]

\* temperature_softmax that also rejects negative temperatures
temperature_softmax_RejectNonPositive(x, temperature, axis) ==
    IF temperature[1] <= 0 THEN Raised("ValueError")
    ELSE SoftmaxOf(x, axis,
            [i \in 1..x.h |-> [j \in 1..x.w |->
                DivideByTemperature(x.data[i][j] - AxisMax(x, axis, i, j), temperature)]])

\* temperature_softmax(x, temperature, axis); temperature is the ratio <<tn, td>>
temperature_softmax(x, temperature, axis) ==
    IF temperature[1] = 0 THEN Raised("ValueError")
    ELSE SoftmaxOf(x, axis,
            [i \in 1..x.h |-> [j \in 1..x.w |->
                DivideByTemperature(x.data[i][j] - AxisMax(x, axis, i, j), temperature)]])

(* ----------------------------- activations ---------------------------- *)
\* A closure or None, as the second element of a returned pair
BackwardIf(return_backward_fn, closure) ==
    IF return_backward_fn THEN Some(closure) ELSE None

\* The same function applied to every entry of a tensor
Elementwise(x, fn) == Tensor1(x.lead, [i \in 1..Len(x.data) |-> <<fn, x.data[i]>>])

\* relu(x, return_backward_fn): y = maximum(x, 0)
relu(x, return_backward_fn) ==
    LET out == Tensor1(x.lead, [i \in 1..Len(x.data) |-> Max(x.data[i], 0)])
    IN  [y |-> out, backward |-> BackwardIf(return_backward_fn, [y |-> out])]

\* lambda dy: (y > 0) * dy
relu_backward(closure, g) ==
    Tensor1(g.lead, [i \in 1..Len(g.data) |->
                        IF closure.y.data[i] > 0 THEN g.data[i] ELSE 0])

\* leaky_relu(x, alpha, return_backward_fn) with alpha the ratio <<an, ad>>:
\* y = maximum(x, 0) + alpha * minimum(0, x), as reduced fractions
leaky_relu(x, alpha, return_backward_fn) ==
    LET out == Tensor1(x.lead, [i \in 1..Len(x.data) |->
                   IF x.data[i] >= 0 THEN Frac(x.data[i], 1)
                   ELSE Frac(alpha[1] * x.data[i], alpha[2])])
    IN  [y |-> out,
         backward |-> BackwardIf(return_backward_fn, [y |-> out, alpha |-> alpha])]

\* lambda dy: ((y > 0) + (y < 0) * alpha) * dy
leaky_relu_backward(closure, g) ==
    Tensor1(g.lead, [i \in 1..Len(g.data) |->
        IF closure.y.data[i][1] > 0 THEN Frac(g.data[i], 1)
        ELSE IF closure.y.data[i][1] < 0
             THEN Frac(closure.alpha[1] * g.data[i], closure.alpha[2])
             ELSE Frac(0, 1)])

\* gelu(x, return_backward_fn); an entry <<"gelu", v>> stands for gelu(v)
gelu(x, return_backward_fn) ==
    [y |-> Elementwise(x, "gelu"),
     backward |-> BackwardIf(return_backward_fn, [x |-> x, tmp |-> Elementwise(x, "tmp")])]

\* the backward function of gelu: an entry stands for gelu'(v) * dy
gelu_backward(closure, g) ==
    Tensor1(g.lead, [i \in 1..Len(g.data) |-> <<"d_gelu", closure.x.data[i], g.data[i]>>])

\* sigmoid(x, return_backward_fn); an entry <<"sigmoid", v>> stands for sigmoid(v)
sigmoid(x, return_backward_fn) ==
    [y |-> Elementwise(x, "sigmoid"),
     backward |-> BackwardIf(return_backward_fn, [y |-> Elementwise(x, "sigmoid")])]

\* lambda dy: (y * (1 - y)) * dy, an entry kept as <<"y*(1-y)*dy", y, dy>>
sigmoid_backward(closure, g) ==
    Tensor1(g.lead, [i \in 1..Len(g.data) |->
                        <<"y*(1-y)*dy", closure.y.data[i], g.data[i]>>])

\* tanh(x, return_backward_fn); an entry <<"tanh", v>> stands for tanh(v)
tanh(x, return_backward_fn) ==
    [y |-> Elementwise(x, "tanh"),
     backward |-> BackwardIf(return_backward_fn, [y |-> Elementwise(x, "tanh")])]

\* lambda dy: (1 - y**2) * dy, an entry kept as <<"(1-y**2)*dy", y, dy>>
tanh_backward(closure, g) ==
    Tensor1(g.lead, [i \in 1..Len(g.data) |->
                        <<"(1-y**2)*dy", closure.y.data[i], g.data[i]>>])

(* ----------------------- tensor_utils.py: shuffle --------------------- *)
\* Tensor.len: the length along axis 0
TensorLen(t) == t.shape[1]

\* t[index] for a tensor of indices 0..len-1: the rows of t in the order of index
TakeRows(t, index) ==
    LET w == Size(Tail(t.shape))
    IN  Nd(<<Len(index)>> \o Tail(t.shape),
           [k \in 1..(Len(index) * w) |->
               t.data[index[((k - 1) \div w) + 1] * w + ((k - 1) % w) + 1]])

\* shuffle that takes the rows of y in the reverse order of shuffle_index
shuffle_Unpaired(x, labels, shuffle_index) ==
    IF TensorLen(x) # TensorLen(labels) THEN Raised("ShapeError")
    ELSE [ok |-> TRUE, x |-> TakeRows(x, shuffle_index),
          y |-> TakeRows(labels, [i \in 1..Len(shuffle_index) |->
                                shuffle_index[Len(shuffle_index) + 1 - i]])]

\* shuffle(x, y) with the second tensor named labels, and shuffle_index the
\* value np.random.permutation(x.len) returns
shuffle(x, labels, shuffle_index) ==
    IF TensorLen(x) # TensorLen(labels) THEN Raised("ShapeError")
    ELSE [ok |-> TRUE, x |-> TakeRows(x, shuffle_index),
          y |-> TakeRows(labels, shuffle_index)]

(* ------------------------------ the program --------------------------- *)
NoTensor == Raised("unset")

Init ==
    /\ pc = "idle"
    /\ args = <<>>
    /\ cache = NewCache
    /\ y = NoTensor
    /\ dy = NoTensor
    /\ grads = <<>>
    /\ calls = <<>>
    /\ frame = <<>>
    /\ modules = <<>>

\* The incoming gradient of a backward call: the forward output itself (a round
\* trip) or another tensor of the output's shape.
GradsFor(out) == {out, Arange(out.lead, Len(out.data), 10)}

GradsFor2(out) == {out, Arange2(out.lead, out.h, out.w, 10)}

\* FDilation1D.forward(cache, x, dilation) on a fresh cache
Dilation1DForward ==
    /\ pc = "idle"
    /\ \E n \in 1..MaxLen, dilation \in 1..MaxDil :
          LET x == Arange(<<>>, n, 0)
              r == FDilation1D_forward(NewCache, x, dilation)
          IN  /\ args' = [x |-> x, dilation |-> dilation]
              /\ cache' = r.cache
              /\ y' = r.y
    /\ pc' = "FDilation1D.forward"
    /\ UNCHANGED <<modules, dy, grads, calls, frame>>

\* FDilation1D.backward(cache, dy)
Dilation1DBackward ==
    /\ pc = "FDilation1D.forward"
    /\ \E g \in GradsFor(y) :
          LET r == FDilation1D_backward(cache, g)
          IN  /\ dy' = g
              /\ grads' = [dx |-> r.dx]
              /\ cache' = r.cache
    /\ pc' = "FDilation1D.backward"
    /\ UNCHANGED <<modules, args, y, calls, frame>>

\* FPad1D.forward(cache, x, padding) on a fresh cache
Pad1DForward ==
    /\ pc = "idle"
    /\ \E n \in 1..MaxLen, before \in 0..MaxPad, after \in 0..MaxPad :
          LET x == Arange(<<>>, n, 0)
              r == FPad1D_forward(NewCache, x, <<before, after>>)
          IN  /\ args' = [x |-> x, padding |-> <<before, after>>]
              /\ cache' = r.cache
              /\ y' = r.y
    /\ pc' = "FPad1D.forward"
    /\ UNCHANGED <<modules, dy, grads, calls, frame>>

\* FPad1D.backward(cache, dy)
Pad1DBackward ==
    /\ pc = "FPad1D.forward"
    /\ \E g \in GradsFor(y) :
          LET r == FPad1D_backward(cache, g)
          IN  /\ dy' = g
              /\ grads' = [dx |-> r.dx]
              /\ cache' = r.cache
    /\ pc' = "FPad1D.backward"
    /\ UNCHANGED <<modules, args, y, calls, frame>>

\* FDilation2D.forward(cache, x, dilation) on a fresh cache
Dilation2DForward ==
    /\ pc = "idle"
    /\ \E h \in 1..MaxSide, w \in 1..MaxSide, d0 \in 1..MaxDil, d1 \in 1..MaxDil :
          LET x == Arange2(<<>>, h, w, 0)
              r == FDilation2D_forward(NewCache, x, <<d0, d1>>)
          IN  /\ args' = [x |-> x, dilation |-> <<d0, d1>>]
              /\ cache' = r.cache
              /\ y' = r.y
              /\ pc' = IF r.y.ok THEN "FDilation2D.forward" ELSE "FDilation2D.raised"
    /\ UNCHANGED <<modules, dy, grads, calls, frame>>

\* dilate2d(x, dilation)
Dilate2dCall ==
    /\ pc = "idle"
    /\ \E h \in 1..MaxSide, w \in 1..MaxSide, d0 \in 1..MaxDil, d1 \in 1..MaxDil :
          LET x == Arange2(<<>>, h, w, 0)
          IN  /\ args' = [x |-> x, dilation |-> <<d0, d1>>]
              /\ y' = dilate2d(x, <<d0, d1>>)
              /\ pc' = IF dilate2d(x, <<d0, d1>>).ok THEN "dilate2d.return"
                       ELSE "dilate2d.raised"
    /\ UNCHANGED <<modules, cache, dy, grads, calls, frame>>

\* FDilation2D.backward(cache, dy)
Dilation2DBackward ==
    /\ pc = "FDilation2D.forward"
    /\ \E g \in GradsFor2(y) :
          LET r == FDilation2D_backward(cache, g)
          IN  /\ dy' = g
              /\ grads' = [dx |-> r.dx]
              /\ cache' = r.cache
    /\ pc' = "FDilation2D.backward"
    /\ UNCHANGED <<modules, args, y, calls, frame>>

\* FPad2D.forward(cache, x, padding) on a fresh cache
Pad2DForward ==
    /\ pc = "idle"
    /\ \E h \in 1..MaxSide, w \in 1..MaxSide,
          top \in 0..MaxPad, bottom \in 0..MaxPad, left \in 0..MaxPad, right \in 0..MaxPad :
          LET x == Arange2(<<>>, h, w, 0)
              r == FPad2D_forward(NewCache, x, <<<<top, bottom>>, <<left, right>>>>)
          IN  /\ args' = [x |-> x, padding |-> <<<<top, bottom>>, <<left, right>>>>]
              /\ cache' = r.cache
              /\ y' = r.y
    /\ pc' = "FPad2D.forward"
    /\ UNCHANGED <<modules, dy, grads, calls, frame>>

\* FPad2D.backward(cache, dy)
Pad2DBackward ==
    /\ pc = "FPad2D.forward"
    /\ \E g \in GradsFor2(y) :
          LET r == FPad2D_backward(cache, g)
          IN  /\ dy' = g
              /\ grads' = [dx |-> r.dx]
              /\ cache' = r.cache
    /\ pc' = "FPad2D.backward"
    /\ UNCHANGED <<modules, args, y, calls, frame>>

PaddingModes == {"valid", "same", "causal", "full"}

\* functional.py: __pad1d_from_str(padding, kernel_size)
PadFromStrOld ==
    /\ pc = "idle"
    /\ \E padding \in PaddingModes, kernel_size \in 1..(MaxK * MaxDil) :
          /\ args' = [padding |-> padding, kernel_size |-> kernel_size]
          /\ y' = [ok |-> TRUE, padding |-> __pad1d_from_str(padding, kernel_size)]
    /\ pc' = "__pad1d_from_str.return"
    /\ UNCHANGED <<modules, cache, dy, grads, calls, frame>>

\* convolutions.py: _pad1d_from_str(padding, kernel_size)
PadFromStr ==
    /\ pc = "idle"
    /\ \E padding \in PaddingModes, kernel_size \in 1..(MaxK * MaxDil) :
          /\ args' = [padding |-> padding, kernel_size |-> kernel_size]
          /\ y' = [ok |-> TRUE, padding |-> _pad1d_from_str(padding, kernel_size)]
    /\ pc' = "_pad1d_from_str.return"
    /\ UNCHANGED <<modules, cache, dy, grads, calls, frame>>

\* functional.py: convolve1d(x, f, padding, stride, dilation)
Convolve1d ==
    /\ pc = "idle"
    /\ \E L \in 1..MaxLen, K \in 1..MaxK, padding \in PaddingModes,
          stride \in 1..MaxStride, dilation \in 1..MaxDil, f_lead \in {<<>>, <<1>>} :
          LET x == Arange(<<>>, L, 0)
              f == Arange(f_lead, K, 0)
          IN  /\ args' = [x |-> x, f |-> f, padding |-> padding,
                          stride |-> stride, dilation |-> dilation]
              /\ y' = convolve1d(x, f, padding, stride, dilation)
    /\ pc' = "convolve1d.return"
    /\ UNCHANGED <<modules, cache, dy, grads, calls, frame>>

\* _FConvolution1D.forward(cache, x, f, stride) on a fresh cache
RawConv1DForward ==
    /\ pc = "idle"
    /\ \E L \in 1..MaxLen, K \in 1..MaxK, stride \in 1..MaxStride :
          /\ K <= L
          /\ LET x == Arange(<<>>, L, 0)
                 f == Arange(<<>>, K, 0)
                 r == _FConvolution1D_forward(NewCache, x, f, stride)
             IN  /\ args' = [x |-> x, f |-> f, stride |-> stride]
                 /\ cache' = r.cache
                 /\ y' = r.y
    /\ pc' = "_FConvolution1D.forward"
    /\ UNCHANGED <<modules, dy, grads, calls, frame>>

\* _FConvolution1D.backward(cache, dy)
RawConv1DBackward ==
    /\ pc = "_FConvolution1D.forward"
    /\ LET g == Arange(y.lead, Len(y.data), 10)
           r == _FConvolution1D_backward(cache, g)
       IN  /\ dy' = g
           /\ grads' = [dx |-> r.dx, df |-> r.df]
           /\ frame' = [dilated |-> r.dilated, undone |-> r.undone]
           /\ cache' = r.cache
    /\ pc' = "_FConvolution1D.backward"
    /\ UNCHANGED <<modules, args, y, calls>>

\* PaddingLike of convolutions.py
PaddingLike == {"valid", "same"}

\* len of the filter after FDilation1D.forward, and of the input after FPad1D.forward
DilatedLen(K, dilation) == Len(FDilation1D_forward(PseudoCache, Arange(<<>>, K, 0), dilation).y.data)

PaddedLen(L, p) == Len(FPad1D_forward(PseudoCache, Arange(<<>>, L, 0), p).y.data)

\* FConvolution1D.forward, line 51: dilate the filter.  The call's inputs are
\* drawn here: x (B, Ci, L), f (Co, Ci, K), an optional bias (Co,), and the
\* dilated filter fits the padded input.
Conv1DFwdDilation ==
    /\ pc = "idle"
    /\ \E B \in 1..MaxBatch, Ci \in 1..MaxChan, Co \in 1..MaxChan,
          L \in 1..MaxLen, K \in 1..MaxK, has_b \in BOOLEAN, b_grad \in BOOLEAN,
          padding \in PaddingLike, stride \in 1..MaxStride, dilation \in 1..MaxDil,
          f_axes \in {2, 3} :
          /\ (has_b \/ ~ b_grad)
          /\ DilatedLen(K, dilation)
                <= PaddedLen(L, _pad1d_from_str(padding, DilatedLen(K, dilation)))
          /\ LET x == Arange(<<B, Ci>>, L, 0)
                 f == Arange(IF f_axes = 3 THEN <<Co, Ci>> ELSE <<Ci>>, K, 0)
                 b == IF has_b
                      THEN Some([ok |-> TRUE, lead |-> <<>>, data |-> [i \in 1..Co |-> 1],
                                 requires_grad |-> b_grad])
                      ELSE None
                 r == FDilation1D_forward(NewCache, f, dilation)
             IN  /\ args' = [x |-> x, f |-> f, b |-> b, padding |-> padding,
                             stride |-> stride, dilation |-> dilation]
                 /\ cache' = r.cache
                 /\ frame' = [f_ext |-> insert_dim(r.y, 0)]
    /\ calls' = <<"FDilation1D.forward">>
    /\ pc' = "conv1d_fwd_dilated"
    /\ UNCHANGED <<modules, y, dy, grads>>

\* FConvolution1D.forward, lines 55-57: pad the input
Conv1DFwdPad ==
    /\ pc = "conv1d_fwd_dilated"
    /\ LET p == _pad1d_from_str(args.padding, Len(frame.f_ext.data))
           r == FPad1D_forward(cache, args.x, p)
       IN  /\ cache' = r.cache
           /\ frame' = [f_ext |-> frame.f_ext, x_ext |-> insert_dim(r.y, 1)]
    /\ calls' = Append(calls, "FPad1D.forward")
    /\ pc' = "conv1d_fwd_padded"
    /\ UNCHANGED <<modules, args, y, dy, grads>>

\* FConvolution1D.forward, lines 60-61: convolve and sum over the input channels
Conv1DFwdKernel ==
    /\ pc = "conv1d_fwd_padded"
    /\ LET r == _FConvolution1D_forward(cache, frame.x_ext, frame.f_ext, args.stride)
       IN  /\ cache' = r.cache
           /\ frame' = [conv |-> r.y, y |-> cp_sum(r.y, 2)]
    /\ calls' = Append(calls, "_FConvolution1D.forward")
    /\ pc' = "conv1d_fwd_convolved"
    /\ UNCHANGED <<modules, args, y, dy, grads>>

\* FConvolution1D.forward, lines 63-68: add the bias, store conv_shape, return
Conv1DFwdReturn ==
    /\ pc = "conv1d_fwd_convolved"
    /\ LET c1 == IF args.b # None
                 THEN CachePut(cache, "FConvolution1D", "b", args.b # None)
                 ELSE cache
           \* y += insert_dim(b, -1): in place, so (Co, 1) must broadcast to y's shape
           b_fits == \/ args.b = None
                     \/ Len(args.b[1].data) = 1
                     \/ Len(args.b[1].data) = frame.y.lead[2]
           out == IF args.b # None
                  THEN Tensor1(frame.y.lead,
                               [i \in 1..Len(frame.y.data) |->
                                   frame.y.data[i] + args.b[1].data[1]])
                  ELSE frame.y
       IN  IF b_fits
           THEN /\ cache' = CachePut(c1, "FConvolution1D", "conv_shape", Shape1(frame.conv))
                /\ y' = out
                /\ pc' = "FConvolution1D.forward"
           ELSE /\ cache' = c1
                /\ y' = Raised("ValueError")
                /\ pc' = "FConvolution1D.forward.raised"
    /\ frame' = <<>>
    /\ UNCHANGED <<modules, args, dy, grads, calls>>

\* FConvolution1D.backward, lines 74-79: broadcast dy and run the kernel's backward
Conv1DBwdKernel ==
    /\ pc = "FConvolution1D.forward"
    /\ LET g == Arange(y.lead, Len(y.data), 10)
           b == CacheGet(cache, "b")
           conv_shape == CacheGet(cache, "conv_shape")[1]
           c1 == CacheRead(CacheRead(cache, "FConvolution1D", "b"),
                           "FConvolution1D", "conv_shape")
           dy_ext == broadcast_to(insert_dim(g, 2), conv_shape)
           r == _FConvolution1D_backward(c1, dy_ext)
       IN  /\ dy' = g
           /\ IF ~ dy_ext.ok
              THEN /\ cache' = c1
                   /\ grads' = dy_ext
                   /\ UNCHANGED <<modules, frame, calls>>
                   /\ pc' = "FConvolution1D.raised"
              ELSE /\ cache' = r.cache
                   /\ calls' = Append(calls, "_FConvolution1D.backward")
                   /\ IF r.dx.ok /\ r.df.ok
                      THEN /\ frame' = [b |-> b, dx |-> r.dx, df |-> r.df]
                           /\ pc' = "conv1d_bwd_convolved"
                           /\ UNCHANGED grads
                      ELSE /\ grads' = IF r.dx.ok THEN r.df ELSE r.dx
                           /\ pc' = "FConvolution1D.raised"
                           /\ UNCHANGED frame
    /\ UNCHANGED <<modules, args, y>>

\* FConvolution1D.backward, line 81: undo the padding
Conv1DBwdPad ==
    /\ pc = "conv1d_bwd_convolved"
    /\ LET r == FPad1D_backward(cache, cp_sum(frame.dx, 1))
       IN  /\ cache' = r.cache
           /\ frame' = [frame EXCEPT !.dx = r.dx]
    /\ calls' = Append(calls, "FPad1D.backward")
    /\ pc' = "conv1d_bwd_unpadded"
    /\ UNCHANGED <<modules, args, y, dy, grads>>

\* FConvolution1D.backward, line 82: undo the dilation
Conv1DBwdDilation ==
    /\ pc = "conv1d_bwd_unpadded"
    /\ LET r == FDilation1D_backward(cache, cp_sum(frame.df, 0))
       IN  /\ cache' = r.cache
           /\ frame' = [frame EXCEPT !.df = r.dx]
    /\ calls' = Append(calls, "FDilation1D.backward")
    /\ pc' = "conv1d_bwd_undilated"
    /\ UNCHANGED <<modules, args, y, dy, grads>>

\* FConvolution1D.backward, lines 83-85: the bias gradient, return
Conv1DBwdReturn ==
    /\ pc = "conv1d_bwd_undilated"
    /\ LET db == IF Truthy(frame.b)
                 THEN Some(Tensor1(<<>>, [i \in 1..dy.lead[2] |->
                          dy.lead[1] * SumOver(dy.data)]))
                 ELSE None
       IN  grads' = [dx |-> frame.dx, df |-> frame.df, db |-> db]
    /\ frame' = <<>>
    /\ pc' = "FConvolution1D.backward"
    /\ UNCHANGED <<modules, args, cache, y, dy, calls>>

\* Inputs of a pooling call, shape (1, 1, h, w): distinct values, all values
\* equal, and a pattern of zeros and ones with ties inside the windows.
PoolInputs(h, w) ==
    { Arange2(<<1, 1>>, h, w, 0),
      Tensor2(<<1, 1>>, h, w, [i \in 1..h |-> [j \in 1..w |-> 1]]),
      Tensor2(<<1, 1>>, h, w, [i \in 1..h |-> [j \in 1..w |-> (i + j) % 2]]) }

\* Incoming gradients of a pooling backward: distinct values, or all ones.
PoolGrads(out) ==
    { Arange2(out.lead, out.h, out.w, 10),
      Tensor2(out.lead, out.h, out.w, [i \in 1..out.h |-> [j \in 1..out.w |-> 1]]) }

\* FMaxPooling2D.forward(cache, x, kernel_size) on a fresh cache
MaxPool2DForward ==
    /\ pc = "idle"
    /\ \E h \in 1..MaxPoolSide, w \in 1..MaxPoolSide,
          kh \in 1..MaxPoolK, kw \in 1..MaxPoolK :
          \E x \in PoolInputs(h, w) :
             LET r == FMaxPooling2D_forward(NewCache, x, <<kh, kw>>)
             IN  /\ args' = [x |-> x, kernel_size |-> <<kh, kw>>]
                 /\ cache' = r.cache
                 /\ y' = r.y
    /\ pc' = "FMaxPooling2D.forward"
    /\ UNCHANGED <<modules, dy, grads, calls, frame>>

\* FMaxPooling2D.backward(cache, dy)
MaxPool2DBackward ==
    /\ pc = "FMaxPooling2D.forward"
    /\ \E g \in PoolGrads(y) :
          LET r == FMaxPooling2D_backward(cache, g)
          IN  /\ dy' = g
              /\ grads' = [dx |-> r.dx]
              /\ cache' = r.cache
    /\ pc' = "FMaxPooling2D.backward"
    /\ UNCHANGED <<modules, args, y, calls, frame>>

\* FAvgPooling2D.forward(cache, x, kernel_size) on a fresh cache
AvgPool2DForward ==
    /\ pc = "idle"
    /\ \E h \in 1..MaxPoolSide, w \in 1..MaxPoolSide,
          kh \in 1..MaxPoolK, kw \in 1..MaxPoolK :
          \E x \in PoolInputs(h, w) :
             LET r == FAvgPooling2D_forward(NewCache, x, <<kh, kw>>)
             IN  /\ args' = [x |-> x, kernel_size |-> <<kh, kw>>]
                 /\ cache' = r.cache
                 /\ y' = r.y
    /\ pc' = "FAvgPooling2D.forward"
    /\ UNCHANGED <<modules, dy, grads, calls, frame>>

\* FAvgPooling2D.backward(cache, dy)
AvgPool2DBackward ==
    /\ pc = "FAvgPooling2D.forward"
    /\ \E g \in PoolGrads(y) :
          LET r == FAvgPooling2D_backward(cache, g)
          IN  /\ dy' = g
              /\ grads' = [dx |-> r.dx]
              /\ cache' = r.cache
    /\ pc' = "FAvgPooling2D.backward"
    /\ UNCHANGED <<modules, args, y, calls, frame>>

\* functional.py: maxpooling2d(x, kernel_size, return_backward_fn)
MaxPooling2dCall ==
    /\ pc = "idle"
    /\ \E h \in 1..MaxPoolSide, w \in 1..MaxPoolSide,
          kh \in 1..MaxPoolK, kw \in 1..MaxPoolK, return_backward_fn \in BOOLEAN :
          \E x \in PoolInputs(h, w) :
             LET r == functional_maxpooling2d(x, <<kh, kw>>, return_backward_fn)
             IN  /\ args' = [x |-> x, kernel_size |-> <<kh, kw>>,
                             return_backward_fn |-> return_backward_fn]
                 /\ y' = r.y
                 /\ frame' = [backward |-> r.backward]
    /\ pc' = "maxpooling2d.return"
    /\ UNCHANGED <<modules, cache, dy, grads, calls>>

\* the backward function maxpooling2d returned, called with dy
MaxPooling2dBackward ==
    /\ pc = "maxpooling2d.return"
    /\ frame.backward # None
    /\ \E g \in PoolGrads(y) :
          /\ dy' = g
          /\ grads' = [dx |-> functional_maxpooling2d_backward(frame.backward[1], g)]
    /\ pc' = "maxpooling2d.backward"
    /\ UNCHANGED <<modules, args, cache, y, calls, frame>>

\* functional.py: avgpooling2d(x, kernel_size, return_backward_fn)
AvgPooling2dCall ==
    /\ pc = "idle"
    /\ \E h \in 1..MaxPoolSide, w \in 1..MaxPoolSide,
          kh \in 1..MaxPoolK, kw \in 1..MaxPoolK, return_backward_fn \in BOOLEAN :
          \E x \in PoolInputs(h, w) :
             LET r == functional_avgpooling2d(x, <<kh, kw>>, return_backward_fn)
             IN  /\ args' = [x |-> x, kernel_size |-> <<kh, kw>>,
                             return_backward_fn |-> return_backward_fn]
                 /\ y' = r.y
                 /\ frame' = [backward |-> r.backward]
    /\ pc' = "avgpooling2d.return"
    /\ UNCHANGED <<modules, cache, dy, grads, calls>>

\* the backward function avgpooling2d returned, called with dy
AvgPooling2dBackward ==
    /\ pc = "avgpooling2d.return"
    /\ frame.backward # None
    /\ \E g \in PoolGrads(y) :
          /\ dy' = g
          /\ grads' = [dx |-> functional_avgpooling2d_backward(frame.backward[1], g)]
    /\ pc' = "avgpooling2d.backward"
    /\ UNCHANGED <<modules, args, cache, y, calls, frame>>

\* Shapes of the batch axes of x: one to MaxLinAxes axes
LinearBatchShapes ==
    UNION {[1..n -> 1..MaxLinBatch] : n \in 1..MaxLinAxes}

\* functional.py: linear(x, w, b, return_backward_fn)
LinearCall ==
    /\ pc = "idle"
    /\ \E lead \in LinearBatchShapes, Ci \in 1..MaxFeat, Co \in 1..MaxFeat,
          has_b \in BOOLEAN, w_grad \in BOOLEAN, b_grad \in BOOLEAN,
          return_backward_fn \in BOOLEAN :
          LET x == Arange(lead, Ci, 0)
              w == [ok |-> TRUE, lead |-> <<>>, h |-> Co, w |-> Ci,
                    data |-> Arange2(<<>>, Co, Ci, 0).data, requires_grad |-> w_grad]
              b == IF has_b
                   THEN Some([ok |-> TRUE, lead |-> <<>>, data |-> Arange(<<>>, Co, 20).data,
                              requires_grad |-> b_grad])
                   ELSE None
              r == functional_linear(x, w, b, return_backward_fn)
          IN  /\ (has_b \/ ~ b_grad)
              /\ args' = [x |-> x, w |-> w, b |-> b, return_backward_fn |-> return_backward_fn]
              /\ y' = r.y
              /\ frame' = [backward |-> r.backward]
    /\ pc' = "linear.return"
    /\ UNCHANGED <<modules, cache, dy, grads, calls>>

\* the backward function linear returned, called with dy
LinearBackward ==
    /\ pc = "linear.return"
    /\ frame.backward # None
    /\ LET g == Arange(y.lead, Len(y.data), 10)
       IN  /\ dy' = g
           /\ grads' = functional_linear_backward(frame.backward[1], g)
    /\ pc' = "linear.backward"
    /\ UNCHANGED <<modules, args, cache, y, calls, frame>>

\* Ranks of the index tensors
IdxRanks == {1, 2, 3}

IndexShapes == UNION {[1..n -> 1..MaxIdxLen] : n \in IdxRanks}

IndexDtypes == {"int32", "int8", "float32"}

\* Index tensors of a shape into a table of V rows: every index 0, the indices
\* cycling through the rows, every index the last row
IndexTensors(shape, V) ==
    { [ok |-> TRUE, shape |-> shape, data |-> d, dtype |-> t] :
        d \in { [p \in 1..Size(shape) |-> 0],
                [p \in 1..Size(shape) |-> (p - 1) % V],
                [p \in 1..Size(shape) |-> V - 1] },
        t \in IndexDtypes }

\* An embedding table of distinct non-zero entries
Table(V, E, requires_grad) ==
    [ok |-> TRUE, shape |-> <<V, E>>, data |-> [k \in 1..(V * E) |-> k],
     requires_grad |-> requires_grad]

\* The incoming gradient of an embedding backward: distinct entries
EmbGrad(out) == Nd(out.shape, [k \in 1..Len(out.data) |-> 10 + k])

\* functional.py: lookup_embedding(x, embedding_table, return_backward_fn)
LookupEmbeddingCall ==
    /\ pc = "idle"
    /\ \E shape \in IndexShapes, V \in 1..MaxVocab, E \in 1..MaxEmbDim,
          requires_grad \in BOOLEAN, return_backward_fn \in BOOLEAN :
          \E x \in IndexTensors(shape, V) :
             LET r == lookup_embedding(x, Table(V, E, requires_grad), return_backward_fn)
             IN  /\ args' = [x |-> x, embedding_table |-> Table(V, E, requires_grad),
                             return_backward_fn |-> return_backward_fn]
                 /\ y' = r.y
                 /\ frame' = [backward |-> r.backward]
                 /\ pc' = IF r.y.ok THEN "lookup_embedding.return"
                          ELSE "lookup_embedding.raised"
    /\ UNCHANGED <<modules, cache, dy, grads, calls>>

\* the backward function lookup_embedding returned, called with dy
LookupEmbeddingBackward ==
    /\ pc = "lookup_embedding.return"
    /\ frame.backward # None
    /\ dy' = EmbGrad(y)
    /\ grads' = [dw |-> lookup_embedding_backward(frame.backward[1], EmbGrad(y))]
    /\ pc' = "lookup_embedding.backward"
    /\ UNCHANGED <<modules, args, cache, y, calls, frame>>

\* EmbeddingFn.forward(cache, x, embedding_table) on a fresh cache
EmbeddingFnForward ==
    /\ pc = "idle"
    /\ \E shape \in IndexShapes, V \in 1..MaxVocab, E \in 1..MaxEmbDim,
          requires_grad \in BOOLEAN :
          \E x \in IndexTensors(shape, V) :
             LET r == EmbeddingFn_forward(NewCache, x, Table(V, E, requires_grad))
             IN  /\ args' = [x |-> x, embedding_table |-> Table(V, E, requires_grad)]
                 /\ y' = r.y
                 /\ cache' = r.cache
                 /\ pc' = IF r.y.ok THEN "EmbeddingFn.forward" ELSE "EmbeddingFn.raised"
    /\ UNCHANGED <<modules, dy, grads, calls, frame>>

\* EmbeddingFn.backward(cache, dy)
EmbeddingFnBackward ==
    /\ pc = "EmbeddingFn.forward"
    /\ LET r == EmbeddingFn_backward(cache, EmbGrad(y))
       IN  /\ dy' = EmbGrad(y)
           /\ grads' = [dw |-> Some(r.y)]
           /\ cache' = r.cache
    /\ pc' = "EmbeddingFn.backward"
    /\ UNCHANGED <<modules, args, y, calls, frame>>

\* embedding(x, embedding_table)
EmbeddingCall ==
    /\ pc = "idle"
    /\ \E shape \in IndexShapes, V \in 1..MaxVocab, E \in 1..MaxEmbDim :
          \E x \in IndexTensors(shape, V) :
             /\ args' = [x |-> x, embedding_table |-> Table(V, E, TRUE)]
             /\ y' = embedding(x, Table(V, E, TRUE))
             /\ pc' = IF embedding(x, Table(V, E, TRUE)).ok THEN "embedding.return"
                      ELSE "embedding.raised"
    /\ UNCHANGED <<modules, cache, dy, grads, calls, frame>>

\* Embedding.forward(x) of a module whose gradient slot holds zeros or an
\* earlier gradient
EmbeddingModuleForward ==
    /\ pc = "idle"
    /\ \E shape \in IndexShapes, V \in 1..MaxVocab, E \in 1..MaxEmbDim,
          requires_grad \in BOOLEAN, training \in BOOLEAN, g0 \in {0, 100} :
          \E x \in IndexTensors(shape, V) :
             LET self == [w |-> Table(V, E, requires_grad),
                          grad |-> Nd(<<V, E>>, [k \in 1..(V * E) |-> g0]),
                          training |-> training]
                 r == Embedding_forward(self, x)
             IN  /\ args' = [x |-> x, embedding_table |-> self.w]
                 /\ y' = r.y
                 /\ frame' = [self |-> self, backward |-> r.backward]
                 /\ pc' = IF r.y.ok THEN "Embedding.forward" ELSE "Embedding.raised"
    /\ UNCHANGED <<modules, cache, dy, grads, calls>>

\* Embedding._backward(dy)
EmbeddingModuleBackward ==
    /\ pc = "Embedding.forward"
    /\ frame.backward # None
    /\ LET r == Embedding_backward(frame.self, frame.backward[1], EmbGrad(y))
       IN  /\ dy' = EmbGrad(y)
           /\ grads' = [dx |-> r.dx]
           /\ frame' = [self |-> [frame.self EXCEPT !.grad = r.grad],
                        backward |-> frame.backward, grad0 |-> frame.self.grad]
    /\ pc' = "Embedding.backward"
    /\ UNCHANGED <<modules, args, cache, y, calls>>

\* Temperatures: the ratios tn / td, whole and half numbers of either sign, and 0
Temperatures == {<<tn, td>> : tn \in (0 - MaxTemp)..MaxTemp, td \in {1, 2}}

\* functional.py: temperature_softmax(x, temperature, axis)
TemperatureSoftmaxCall ==
    /\ pc = "idle"
    /\ \E h \in 1..MaxSoftSide, w \in 1..MaxSoftSide, temperature \in Temperatures,
          axis \in {-2, -1, 0, 1} :
          \E x \in {Arange2(<<>>, h, w, 0),
                    Tensor2(<<>>, h, w, [i \in 1..h |-> [j \in 1..w |-> (i + j) % 2]])} :
             /\ args' = [x |-> x, temperature |-> temperature, axis |-> axis]
             /\ y' = temperature_softmax(x, temperature, axis)
             /\ pc' = IF temperature_softmax(x, temperature, axis).ok
                      THEN "temperature_softmax.return"
                      ELSE "temperature_softmax.raised"
    /\ UNCHANGED <<modules, cache, dy, grads, calls, frame>>

\* Inputs of an activation: every vector of negative, zero and positive entries
ActInputs ==
    UNION {{Tensor1(<<>>, d) : d \in [1..n -> {-1, 0, 2}]} : n \in 1..MaxActLen}

\* Slopes of leaky_relu: the default 0.01, and 0.5
Alphas == {<<1, 100>>, <<1, 2>>}

\* functional.py: relu(x, return_backward_fn)
ReluCall ==
    /\ pc = "idle"
    /\ \E x \in ActInputs, return_backward_fn \in BOOLEAN :
          /\ args' = [x |-> x, return_backward_fn |-> return_backward_fn]
          /\ y' = relu(x, return_backward_fn).y
          /\ frame' = [backward |-> relu(x, return_backward_fn).backward]
    /\ pc' = "relu.return"
    /\ UNCHANGED <<modules, cache, dy, grads, calls>>

\* the backward function relu returned, called with dy
ReluBackward ==
    /\ pc = "relu.return"
    /\ frame.backward # None
    /\ dy' = Arange(y.lead, Len(y.data), 10)
    /\ grads' = [dx |-> relu_backward(frame.backward[1], Arange(y.lead, Len(y.data), 10))]
    /\ pc' = "relu.backward"
    /\ UNCHANGED <<modules, args, cache, y, calls, frame>>

\* functional.py: leaky_relu(x, alpha, return_backward_fn)
LeakyReluCall ==
    /\ pc = "idle"
    /\ \E x \in ActInputs, alpha \in Alphas, return_backward_fn \in BOOLEAN :
          /\ args' = [x |-> x, alpha |-> alpha, return_backward_fn |-> return_backward_fn]
          /\ y' = leaky_relu(x, alpha, return_backward_fn).y
          /\ frame' = [backward |-> leaky_relu(x, alpha, return_backward_fn).backward]
    /\ pc' = "leaky_relu.return"
    /\ UNCHANGED <<modules, cache, dy, grads, calls>>

\* the backward function leaky_relu returned, called with dy
LeakyReluBackward ==
    /\ pc = "leaky_relu.return"
    /\ frame.backward # None
    /\ dy' = Arange(y.lead, Len(y.data), 10)
    /\ grads' = [dx |-> leaky_relu_backward(frame.backward[1], Arange(y.lead, Len(y.data), 10))]
    /\ pc' = "leaky_relu.backward"
    /\ UNCHANGED <<modules, args, cache, y, calls, frame>>

\* functional.py: gelu(x, return_backward_fn)
GeluCall ==
    /\ pc = "idle"
    /\ \E x \in ActInputs, return_backward_fn \in BOOLEAN :
          /\ args' = [x |-> x, return_backward_fn |-> return_backward_fn]
          /\ y' = gelu(x, return_backward_fn).y
          /\ frame' = [backward |-> gelu(x, return_backward_fn).backward]
    /\ pc' = "gelu.return"
    /\ UNCHANGED <<modules, cache, dy, grads, calls>>

\* the backward function gelu returned, called with dy
GeluBackward ==
    /\ pc = "gelu.return"
    /\ frame.backward # None
    /\ dy' = Arange(y.lead, Len(y.data), 10)
    /\ grads' = [dx |-> gelu_backward(frame.backward[1], Arange(y.lead, Len(y.data), 10))]
    /\ pc' = "gelu.backward"
    /\ UNCHANGED <<modules, args, cache, y, calls, frame>>

\* functional.py: sigmoid(x, return_backward_fn)
SigmoidCall ==
    /\ pc = "idle"
    /\ \E x \in ActInputs, return_backward_fn \in BOOLEAN :
          /\ args' = [x |-> x, return_backward_fn |-> return_backward_fn]
          /\ y' = sigmoid(x, return_backward_fn).y
          /\ frame' = [backward |-> sigmoid(x, return_backward_fn).backward]
    /\ pc' = "sigmoid.return"
    /\ UNCHANGED <<modules, cache, dy, grads, calls>>

\* the backward function sigmoid returned, called with dy
SigmoidBackward ==
    /\ pc = "sigmoid.return"
    /\ frame.backward # None
    /\ dy' = Arange(y.lead, Len(y.data), 10)
    /\ grads' = [dx |-> sigmoid_backward(frame.backward[1], Arange(y.lead, Len(y.data), 10))]
    /\ pc' = "sigmoid.backward"
    /\ UNCHANGED <<modules, args, cache, y, calls, frame>>

\* functional.py: tanh(x, return_backward_fn)
TanhCall ==
    /\ pc = "idle"
    /\ \E x \in ActInputs, return_backward_fn \in BOOLEAN :
          /\ args' = [x |-> x, return_backward_fn |-> return_backward_fn]
          /\ y' = tanh(x, return_backward_fn).y
          /\ frame' = [backward |-> tanh(x, return_backward_fn).backward]
    /\ pc' = "tanh.return"
    /\ UNCHANGED <<modules, cache, dy, grads, calls>>

\* the backward function tanh returned, called with dy
TanhBackward ==
    /\ pc = "tanh.return"
    /\ frame.backward # None
    /\ dy' = Arange(y.lead, Len(y.data), 10)
    /\ grads' = [dx |-> tanh_backward(frame.backward[1], Arange(y.lead, Len(y.data), 10))]
    /\ pc' = "tanh.backward"
    /\ UNCHANGED <<modules, args, cache, y, calls, frame>>

\* np.random.permutation(n): every ordering of 0..n-1
PermutationsOf(n) ==
    {[i \in 1..n |-> q[i] - 1] : q \in Permutations(1..n)}

\* tensor_utils.py: shuffle(x, y) for a vector x (distinct entries, or all
\* equal) and a matrix y of two columns
Shuffle ==
    /\ pc = "idle"
    /\ \E nx \in 0..MaxShuffleLen, ny \in 0..MaxShuffleLen, equal \in BOOLEAN :
          \E shuffle_index \in PermutationsOf(nx) :
             LET x == Nd(<<nx>>, [i \in 1..nx |-> IF equal THEN 7 ELSE i])
                 labels == Nd(<<ny, 2>>, [k \in 1..(2 * ny) |-> 10 + k])
             IN  /\ args' = [x |-> x, y |-> labels]
                 /\ y' = shuffle(x, labels, shuffle_index)
                 /\ pc' = IF shuffle(x, labels, shuffle_index).ok THEN "shuffle.return"
                          ELSE "shuffle.raised"
    /\ UNCHANGED <<modules, cache, dy, grads, calls, frame>>

\* convolutions.py: upsample2d(x, scaling_factors, shape), the target shape
\* being the repeated shape or one more row and column
Upsample2dCall ==
    /\ pc = "idle"
    /\ \E h \in 1..MaxPoolSide, w \in 1..MaxPoolSide,
          f1 \in 1..MaxPoolK, f2 \in 1..MaxPoolK, extra \in {0, 1} :
          LET x == Arange2(<<1, 1>>, h, w, 0)
              shape == <<1, 1, h * f1 + extra, w * f2 + extra>>
          IN  /\ args' = [x |-> x, scaling_factors |-> <<f1, f2>>, shape |-> shape]
              /\ y' = upsample2d(x, <<f1, f2>>, shape)
              /\ pc' = IF upsample2d(x, <<f1, f2>>, shape).ok THEN "upsample2d.return"
                       ELSE "upsample2d.raised"
    /\ UNCHANGED <<modules, cache, dy, grads, calls, frame>>

\* functional.py: upsample2d(x, scaling_factors, shape)
FunctionalUpsample2dCall ==
    /\ pc = "idle"
    /\ \E h \in 1..MaxPoolSide, w \in 1..MaxPoolSide,
          f1 \in 1..MaxPoolK, f2 \in 1..MaxPoolK, extra \in {0, 1} :
          LET x == Arange2(<<1, 1>>, h, w, 0)
              shape == <<1, 1, h * f1 + extra, w * f2 + extra>>
          IN  /\ args' = [x |-> x, scaling_factors |-> <<f1, f2>>, shape |-> shape]
              /\ y' = functional_upsample2d(x, <<f1, f2>>, shape)
              /\ pc' = IF functional_upsample2d(x, <<f1, f2>>, shape).ok
                       THEN "functional.upsample2d.return"
                       ELSE "functional.upsample2d.raised"
    /\ UNCHANGED <<modules, cache, dy, grads, calls, frame>>

\* Inputs of a 2D convolution: x (1, 1, Y, X), f (1, 1, Fy, Fx) whose dilated
\* size fits the padded input
Conv2DInputs ==
    {[x |-> Arange2(<<1, 1>>, Y, X, 0), f |-> Arange2(<<1, 1>>, Fy, Fx, 0),
      padding |-> padding, stride |-> stride, dilation |-> dilation] :
        Y \in 2..MaxSide, X \in 2..MaxSide, Fy \in 1..MaxK, Fx \in 1..MaxK,
        padding \in PaddingLike, stride \in 1..2, dilation \in 1..2}

\* FConvolution2D.forward(cache, x, f, b, padding, stride, dilation) on a fresh cache
Conv2DForward ==
    /\ pc = "idle"
    /\ \E inp \in Conv2DInputs, has_b \in BOOLEAN :
          LET b == IF has_b
                   THEN Some([ok |-> TRUE, lead |-> <<>>, data |-> <<1>>,
                              requires_grad |-> TRUE])
                   ELSE None
              r == FConvolution2D_forward(NewCache, inp.x, inp.f, b, inp.padding,
                                          inp.stride, inp.dilation)
          IN  /\ args' = [x |-> inp.x, f |-> inp.f, b |-> b, padding |-> inp.padding,
                          stride |-> inp.stride, dilation |-> inp.dilation]
              /\ y' = r.y
              /\ cache' = r.cache
              /\ frame' = IF "p" \in DOMAIN r THEN [p |-> r.p, f |-> r.f] ELSE <<>>
              /\ pc' = IF r.y.ok THEN "FConvolution2D.forward"
                       ELSE "FConvolution2D.forward.raised"
    /\ UNCHANGED <<modules, dy, grads, calls>>

\* functional.py: convolve2d(x, f, padding, stride, dilation)
Convolve2d ==
    /\ pc = "idle"
    /\ \E inp \in Conv2DInputs :
          LET r == functional_convolve2d(inp.x, inp.f, inp.padding, inp.stride, inp.dilation)
          IN  /\ args' = inp
              /\ y' = r.y
              /\ frame' = IF "p" \in DOMAIN r THEN [p |-> r.p, f |-> r.f] ELSE <<>>
              /\ pc' = IF r.y.ok THEN "convolve2d.return" ELSE "convolve2d.raised"
    /\ UNCHANGED <<modules, cache, dy, grads, calls>>

Next ==
    \/ Dilation1DForward
    \/ Dilation1DBackward
    \/ Pad1DForward
    \/ Pad1DBackward
    \/ Dilation2DForward
    \/ Dilation2DBackward
    \/ Pad2DForward
    \/ Pad2DBackward
    \/ PadFromStrOld
    \/ PadFromStr
    \/ Convolve1d
    \/ RawConv1DForward
    \/ RawConv1DBackward
    \/ Conv1DFwdDilation
    \/ Conv1DFwdPad
    \/ Conv1DFwdKernel
    \/ Conv1DFwdReturn
    \/ Conv1DBwdKernel
    \/ Conv1DBwdPad
    \/ Conv1DBwdDilation
    \/ Conv1DBwdReturn
    \/ MaxPool2DForward
    \/ MaxPool2DBackward
    \/ AvgPool2DForward
    \/ AvgPool2DBackward
    \/ MaxPooling2dCall
    \/ MaxPooling2dBackward
    \/ AvgPooling2dCall
    \/ AvgPooling2dBackward
    \/ LinearCall
    \/ LinearBackward
    \/ LookupEmbeddingCall
    \/ LookupEmbeddingBackward
    \/ EmbeddingFnForward
    \/ EmbeddingFnBackward
    \/ EmbeddingCall
    \/ EmbeddingModuleForward
    \/ EmbeddingModuleBackward
    \/ TemperatureSoftmaxCall
    \/ Conv2DForward
    \/ Dilate2dCall
    \/ Convolve2d
    \/ Upsample2dCall
    \/ FunctionalUpsample2dCall
    \/ Shuffle
    \/ ReluCall
    \/ ReluBackward
    \/ LeakyReluCall
    \/ LeakyReluBackward
    \/ GeluCall
    \/ GeluBackward
    \/ SigmoidCall
    \/ SigmoidBackward
    \/ TanhCall
    \/ TanhBackward

Spec == Init /\ [][Next]_vars

(* ------------------------------- Module ------------------------------- *)
Mods == 1..MaxModules

\* Module.__init__, followed by the sub_modules setter when the module is
\* given sub modules
Module_init(subs) ==
    [y |-> None, backward |-> None, _sub_modules |-> AsSeq(subs), _parameters |-> <<>>,
     _training |-> FALSE, _keep_output |-> FALSE]

\* The sub module lists of a model of MaxModules modules: none, a chain, one
\* container of all others, or a container whose sub modules share the last one
ModuleGraphs == {"flat", "chain", "star", "shared"}

SubModulesOf(g, m) ==
    CASE g = "chain" -> IF m < MaxModules THEN <<m + 1>> ELSE <<>>
      [] g = "star" -> IF m = 1 THEN [i \in 1..(MaxModules - 1) |-> i + 1] ELSE <<>>
      [] g = "shared" -> IF m = 1 THEN [i \in 1..(MaxModules - 1) |-> i + 1]
                         ELSE IF m < MaxModules THEN <<MaxModules>> ELSE <<>>
      [] OTHER -> <<>>

RECURSIVE training_setter(_, _, _)
RECURSIVE training_setter_each(_, _, _)
\* for module in self.sub_modules: module.training = value
training_setter_each(ms, subs, value) ==
    IF subs = <<>> THEN ms
    ELSE training_setter_each(training_setter(ms, Head(subs), value), Tail(subs), value)

\* Module.training setter that assigns to the module and its own sub modules only
training_setter_OneLevel(ms, self, value) ==
    [k \in DOMAIN ms |->
        IF k = self \/ \E i \in DOMAIN ms[self]._sub_modules : ms[self]._sub_modules[i] = k
        THEN [ms[k] EXCEPT !._training = value]
        ELSE ms[k]]

\* Module.training setter: self.training = value
training_setter(ms, self, value) ==
    training_setter_each([ms EXCEPT ![self]._training = value],
                         ms[self]._sub_modules, value)

RECURSIVE keep_output_setter(_, _, _)
RECURSIVE keep_output_setter_each(_, _, _)
\* for module in self.sub_modules: module.keep_output = value
keep_output_setter_each(ms, subs, value) ==
    IF subs = <<>> THEN ms
    ELSE keep_output_setter_each(keep_output_setter(ms, Head(subs), value),
                                 Tail(subs), value)

\* Module.keep_output setter: self.keep_output = value
keep_output_setter(ms, self, value) ==
    keep_output_setter_each([ms EXCEPT ![self]._keep_output = value],
                            ms[self]._sub_modules, value)

\* Module.set_y(y)
set_y(ms, self, val) ==
    IF ms[self]._keep_output THEN [ms EXCEPT ![self].y = Some(val)] ELSE ms

RECURSIVE clean(_, _)
RECURSIVE clean_each(_, _)
\* for module in self.sub_modules: module.clean()
clean_each(ms, subs) ==
    IF subs = <<>> THEN ms ELSE clean_each(clean(ms, Head(subs)), Tail(subs))

\* Module.clean()
clean(ms, self) ==
    clean_each([ms EXCEPT ![self].y = None, ![self].backward = None],
               ms[self]._sub_modules)

\* A model after construction: every module as __init__ leaves it, with its
\* sub modules
InitModules ==
    /\ pc = "idle"
    /\ args = <<>>
    /\ cache = NewCache
    /\ y = NoTensor
    /\ dy = NoTensor
    /\ grads = <<>>
    /\ calls = <<>>
    /\ frame = <<>>
    /\ modules \in {[m \in Mods |-> Module_init(SubModulesOf(g, m))] : g \in ModuleGraphs}

\* module.training = value
SetTraining ==
    /\ \E m \in Mods, value \in BOOLEAN : modules' = training_setter(modules, m, value)
    /\ UNCHANGED <<pc, args, cache, y, dy, grads, calls, frame>>

\* module.keep_output = value
SetKeepOutput ==
    /\ \E m \in Mods, value \in BOOLEAN : modules' = keep_output_setter(modules, m, value)
    /\ UNCHANGED <<pc, args, cache, y, dy, grads, calls, frame>>

\* module.set_y(y)
SetY ==
    /\ \E m \in Mods : modules' = set_y(modules, m, 1)
    /\ UNCHANGED <<pc, args, cache, y, dy, grads, calls, frame>>

\* module.clean()
Clean ==
    /\ \E m \in Mods : modules' = clean(modules, m)
    /\ UNCHANGED <<pc, args, cache, y, dy, grads, calls, frame>>

NextModules ==
    \/ SetTraining
    \/ SetKeepOutput
    \/ SetY
    \/ Clean

SpecModules == InitModules /\ [][NextModules]_vars


(* ------------- two round trips, each with its own cache --------------- *)
\* In this specification pc, args, cache, y, dy and grads hold one value for
\* each of the two round trips.
Trips == {1, 2}

\* the cache instance round trip i passes to forward and backward: one shared
\* instance
TripCacheSlot_Shared(i) == 1

\* the cache instance round trip i passes to forward and backward: its own
TripCacheSlot(i) == i

InitTrips ==
    /\ pc = [i \in Trips |-> "idle"]
    /\ args = [i \in Trips |-> [fn |-> "none"]]
    /\ cache = [i \in Trips |-> NewCache]
    /\ y = [i \in Trips |-> NoTensor]
    /\ dy = [i \in Trips |-> NoTensor]
    /\ grads = [i \in Trips |-> NoTensor]
    /\ calls = <<>>
    /\ frame = <<>>
    /\ modules = <<>>

\* Inputs of FConvolution1D.forward: x (1, 1, MaxLen) without a bias, or another
\* x with a bias, f (1, 1, MaxK)
TripConvInputs ==
    {[fn |-> "FConvolution1D", x |-> Arange(<<1, 1>>, MaxLen, x0),
      f |-> Arange(<<1, 1>>, MaxK, 0),
      b |-> IF x0 = 0 THEN None
            ELSE Some([ok |-> TRUE, lead |-> <<>>, data |-> <<1>>, requires_grad |-> TRUE]),
      padding |-> padding, stride |-> stride, dilation |-> dilation] :
        x0 \in {0, 5}, padding \in PaddingLike, stride \in 1..2, dilation \in 1..2}

\* Inputs of FMaxPooling2D.forward
TripPoolInputs ==
    {[fn |-> "FMaxPooling2D", x |-> x, kernel_size |-> <<k, k>>] :
        x \in PoolInputs(MaxPoolSide, MaxPoolSide), k \in 1..MaxPoolK}

\* round trip i calls FConvolution1D.forward(cache_i, ...)
TripConvForward(i) ==
    /\ pc[i] = "idle"
    /\ \E inp \in TripConvInputs :
          LET r == FConvolution1D_forward(cache[TripCacheSlot(i)], inp.x, inp.f, inp.b,
                                          inp.padding, inp.stride, inp.dilation)
          IN  /\ DilatedLen(Len(inp.f.data), inp.dilation)
                    <= PaddedLen(MaxLen, _pad1d_from_str(inp.padding,
                                            DilatedLen(Len(inp.f.data), inp.dilation)))
              /\ args' = [args EXCEPT ![i] = inp]
              /\ cache' = [cache EXCEPT ![TripCacheSlot(i)] = r.cache]
              /\ y' = [y EXCEPT ![i] = r.y]
    /\ pc' = [pc EXCEPT ![i] = "forward"]
    /\ UNCHANGED <<modules, dy, grads, calls, frame>>

\* round trip i calls FConvolution1D.backward(cache_i, dy)
TripConvBackward(i) ==
    /\ pc[i] = "forward"
    /\ args[i].fn = "FConvolution1D"
    /\ LET g == Arange(y[i].lead, Len(y[i].data), 10 * i)
           r == FConvolution1D_backward(cache[TripCacheSlot(i)], g)
       IN  /\ dy' = [dy EXCEPT ![i] = g]
           /\ grads' = [grads EXCEPT ![i] = r.grads]
           /\ cache' = [cache EXCEPT ![TripCacheSlot(i)] = r.cache]
    /\ pc' = [pc EXCEPT ![i] = "backward"]
    /\ UNCHANGED <<modules, args, y, calls, frame>>

\* round trip i calls FMaxPooling2D.forward(cache_i, x, kernel_size)
TripPoolForward(i) ==
    /\ pc[i] = "idle"
    /\ \E inp \in TripPoolInputs :
          LET r == FMaxPooling2D_forward(cache[TripCacheSlot(i)], inp.x, inp.kernel_size)
          IN  /\ args' = [args EXCEPT ![i] = inp]
              /\ cache' = [cache EXCEPT ![TripCacheSlot(i)] = r.cache]
              /\ y' = [y EXCEPT ![i] = r.y]
    /\ pc' = [pc EXCEPT ![i] = "forward"]
    /\ UNCHANGED <<modules, dy, grads, calls, frame>>

\* round trip i calls FMaxPooling2D.backward(cache_i, dy)
TripPoolBackward(i) ==
    /\ pc[i] = "forward"
    /\ args[i].fn = "FMaxPooling2D"
    /\ LET g == Arange2(y[i].lead, y[i].h, y[i].w, 10 * i)
           r == FMaxPooling2D_backward(cache[TripCacheSlot(i)], g)
       IN  /\ dy' = [dy EXCEPT ![i] = g]
           /\ grads' = [grads EXCEPT ![i] = r.dx]
           /\ cache' = [cache EXCEPT ![TripCacheSlot(i)] = r.cache]
    /\ pc' = [pc EXCEPT ![i] = "backward"]
    /\ UNCHANGED <<modules, args, y, calls, frame>>

NextTrips ==
    \/ \E i \in Trips : TripConvForward(i)
    \/ \E i \in Trips : TripConvBackward(i)
    \/ \E i \in Trips : TripPoolForward(i)
    \/ \E i \in Trips : TripPoolBackward(i)

SpecTrips == InitTrips /\ [][NextTrips]_vars

(* ------------------------------- claims ------------------------------- *)
\* The value function fn wrote to cache.key during forward, None if it wrote none.
WrittenBy(c, k) == IF k \in DOMAIN c.wlog THEN Some(c.wlog[k]) ELSE None

\* C1: in a fused convolution round trip on one shared cache, every value a
\* function's backward reads from the cache is the value that same function
\* wrote during forward; no function's entry is overwritten by another.
C1_BackwardReadsOwnWrites ==
    \A k \in DOMAIN cache.rlog : cache.rlog[k] = WrittenBy(cache, k)

\* C2: once the fused backward has ended, the calls it and the forward made
\* are Dilation, Pad, kernel forward, then kernel, Pad, Dilation backward,
\* each exactly once.
C2_BackwardReversesForward ==
    pc \in {"FConvolution1D.backward", "FConvolution1D.raised"} =>
        calls = << "FDilation1D.forward", "FPad1D.forward", "_FConvolution1D.forward",
                   "_FConvolution1D.backward", "FPad1D.backward", "FDilation1D.backward" >>

\* C3: in the raw kernel's backward on its own cache, the gradient with the
\* stride undone has exactly the pre-stride length M, holds the i-th gradient
\* value at index i*stride and zeros everywhere else.
C3_StrideUndone ==
    pc = "_FConvolution1D.backward" =>
        LET M == cache.wlog[<<"_FConvolution1D", "conv_shape">>][1]
            u == frame.undone
        IN  /\ Len(frame.dilated.data) <= M
            /\ u.ok
            /\ Len(u.data) = M
            /\ \A i \in 1..M :
                  u.data[i] = IF (i - 1) % args.stride = 0
                              THEN dy.data[((i - 1) \div args.stride) + 1]
                              ELSE 0

NoPad1 == <<0, 0>>

NoPad2 == <<<<0, 0>>, <<0, 0>>>>

NoDil2 == <<1, 1>>

\* C4: padding with all-zero widths and dilating with factor 1 are identities:
\* forward returns its input, backward returns the incoming gradient, and the
\* no-op is recorded in the cache.
C4_NoOpIdentity ==
    /\ (pc \in {"FPad1D.forward", "FPad1D.backward"} /\ args.padding = NoPad1)
          => (y = args.x /\ CacheGet(cache, "no_padding") = Some(TRUE))
    /\ (pc = "FPad1D.backward" /\ args.padding = NoPad1) => grads.dx = dy
    /\ (pc \in {"FPad2D.forward", "FPad2D.backward"} /\ args.padding = NoPad2)
          => (y = args.x /\ CacheGet(cache, "no_padding") = Some(TRUE))
    /\ (pc = "FPad2D.backward" /\ args.padding = NoPad2) => grads.dx = dy
    /\ (pc \in {"FDilation1D.forward", "FDilation1D.backward"} /\ args.dilation = 1)
          => (y = args.x /\ CacheGet(cache, "no_dilation") = Some(TRUE))
    /\ (pc = "FDilation1D.backward" /\ args.dilation = 1) => grads.dx = dy
    /\ (pc \in {"FDilation2D.forward", "FDilation2D.backward"} /\ args.dilation = NoDil2)
          => (y = args.x /\ CacheGet(cache, "no_dilation") = Some(TRUE))
    /\ (pc = "FDilation2D.backward" /\ args.dilation = NoDil2) => grads.dx = dy

\* a no-op pad's backward has returned a gradient that is not the forward output
C4_Witness ==
    /\ pc = "FPad1D.backward"
    /\ args.padding = NoPad1
    /\ Len(args.x.data) > 1
    /\ dy # y
    /\ grads.dx = dy

\* C5: FPad1D.backward applied to the output of FPad1D.forward (same cache)
\* returns the original tensor, for every (before, after) widths.
C5_Pad1DRoundTrip ==
    (pc = "FPad1D.backward" /\ dy = y) => grads.dx = args.x

\* C6: FPad2D.backward applied to the output of FPad2D.forward (same cache)
\* returns the original tensor, for all widths that are not all zero.
C6_Pad2DRoundTrip ==
    (pc = "FPad2D.backward" /\ dy = y /\ args.padding # NoPad2) => grads.dx = args.x

\* C7: the Dilation backward applied to the output of the Dilation forward
\* (same cache) returns the original tensor, in 1D for every factor and in 2D
\* for every factor applied to both axes (and every pair of factors > 1).
C7_DilationRoundTrip ==
    /\ (pc = "FDilation1D.backward" /\ dy = y) => grads.dx = args.x
    /\ (/\ pc = "FDilation2D.backward"
        /\ dy = y
        /\ ((args.dilation[1] = 1) <=> (args.dilation[2] = 1)))
          => grads.dx = args.x

\* a 2D tensor with several rows and columns went through a factor-3 round trip
C7_Witness ==
    /\ pc = "FDilation2D.backward"
    /\ args.dilation = <<3, 3>>
    /\ args.x.h > 1
    /\ args.x.w > 1
    /\ dy = y
    /\ grads.dx = args.x

\* The claimed layout of an axis of length n dilated by d: length d*(n-1)+1,
\* element i at index i*d, zeros elsewhere.
DilatedAxisOK(out, in, d) ==
    /\ Len(out) = d * (Len(in) - 1) + 1
    /\ \A i \in 1..Len(out) :
          out[i] = IF (i - 1) % d = 0 THEN in[((i - 1) \div d) + 1] ELSE 0

\* C8: dilating an axis of length n by d gives length d*(n-1)+1 with the
\* elements at 0, d, 2d, ..., d-1 zeros between them and none after the last.
C8_DilatedLayout ==
    /\ pc = "FDilation1D.forward" => DilatedAxisOK(y.data, args.x.data, args.dilation)
    /\ pc = "FDilation2D.forward" =>
          /\ y.h = args.dilation[1] * (args.x.h - 1) + 1
          /\ y.w = args.dilation[2] * (args.x.w - 1) + 1

\* floor((L - (D*(K-1)+1)) / S) + 1
ValidOutLen(L, K, S, D) == ((L - (D * (K - 1) + 1)) \div S) + 1

\* C9: with "valid" padding and L >= D*(K-1)+1 the 1D convolution's output
\* length is floor((L - (D*(K-1)+1)) / S) + 1.
C9_ValidOutputLength ==
    (/\ pc \in {"convolve1d.return", "FConvolution1D.forward"}
     /\ ndim(args.x) = ndim(args.f)
     /\ args.padding = "valid"
     /\ Len(args.x.data) >= args.dilation * (Len(args.f.data) - 1) + 1)
       => /\ y.ok
          /\ Len(y.data) = ValidOutLen(Len(args.x.data), Len(args.f.data),
                                       args.stride, args.dilation)

\* The width pair the spec gives each 1D padding mode.
PresetOf(padding, k) ==
    CASE padding = "valid" -> <<0, 0>>
      [] padding = "same" -> <<k \div 2, k \div 2>>
      [] padding = "causal" -> <<k - 1, 0>>
      [] padding = "full" -> <<k - 1, k - 1>>

\* C10: the 1D padding preset resolves "valid" to (0, 0), "same" to
\* (k//2, k//2), "causal" to (k-1, 0) and "full" to (k-1, k-1).
C10_PadPresets ==
    pc \in {"__pad1d_from_str.return", "_pad1d_from_str.return"} =>
        y.padding = PresetOf(args.padding, args.kernel_size)

\* The positions of a fused FConvolution1D call, from its first statement on.
InFConvolution1D ==
    pc \in {"conv1d_fwd_dilated", "conv1d_fwd_padded", "conv1d_fwd_convolved",
            "FConvolution1D.forward", "FConvolution1D.forward.raised",
            "conv1d_bwd_convolved", "conv1d_bwd_unpadded", "conv1d_bwd_undilated",
            "FConvolution1D.backward", "FConvolution1D.raised"}

\* C11: a convolution entry point given an input and a filter with different
\* numbers of axes reports a shape error, and no dilation, padding,
\* convolution or cache write has happened by then.
C11_RankMismatchRejectedFirst ==
    /\ (pc = "convolve1d.return" /\ ndim(args.x) # ndim(args.f))
          => y = Raised("ShapeError")
    /\ (InFConvolution1D /\ ndim(args.x) # ndim(args.f))
          => (y = Raised("ShapeError") /\ cache = NewCache /\ calls = <<>>)


\* Positions of the pooling calls: after a forward, after a backward.
AfterPoolForward ==
    pc \in {"FMaxPooling2D.forward", "FAvgPooling2D.forward",
            "maxpooling2d.return", "avgpooling2d.return"}

AfterPoolBackward ==
    pc \in {"FMaxPooling2D.backward", "FAvgPooling2D.backward",
            "maxpooling2d.backward", "avgpooling2d.backward"}

AfterMaxPool ==
    pc \in {"FMaxPooling2D.forward", "FMaxPooling2D.backward",
            "maxpooling2d.return", "maxpooling2d.backward"}

\* Whether (i, j) lies in the rows or columns the pooling drops
InRemainder(x, kernel_size, i, j) ==
    \/ i > (x.h \div kernel_size[1]) * kernel_size[1]
    \/ j > (x.w \div kernel_size[2]) * kernel_size[2]

\* x with every dropped row and column overwritten
Poisoned(x, kernel_size) ==
    [x EXCEPT !.data = [i \in 1..x.h |-> [j \in 1..x.w |->
        IF InRemainder(x, kernel_size, i, j) THEN 99 ELSE x.data[i][j]]]]

\* C12: pooling with kernel (Kh, Kw) on (H, W) gives (H // Kh, W // Kw); the
\* values in the dropped rows and columns do not change the output, and the
\* backward gradient has the input's full shape and is zero at those positions.
C12_PoolingTruncates ==
    /\ (AfterPoolForward \/ AfterPoolBackward) =>
          /\ y.h = args.x.h \div args.kernel_size[1]
          /\ y.w = args.x.w \div args.kernel_size[2]
          /\ y = (IF AfterMaxPool THEN PoolMax(Poisoned(args.x, args.kernel_size), args.kernel_size)
                  ELSE PoolMean(Poisoned(args.x, args.kernel_size), args.kernel_size))
    /\ AfterPoolBackward =>
          /\ grads.dx.ok
          /\ Shape2(grads.dx) = Shape2(args.x)
          /\ \A i \in 1..args.x.h, j \in 1..args.x.w :
                InRemainder(args.x, args.kernel_size, i, j) =>
                    grads.dx.data[i][j] = (IF AfterMaxPool THEN 0 ELSE Frac(0, 1))

\* The window (1-based row and column) that input position (i, j) belongs to
WindowOf(kernel_size, i, j) ==
    <<((i - 1) \div kernel_size[1]) + 1, ((j - 1) \div kernel_size[2]) + 1>>

\* The greatest input value of window (wi, wj)
WindowMax(x, kernel_size, wi, wj) ==
    SetMax({x.data[(wi - 1) * kernel_size[1] + a][(wj - 1) * kernel_size[2] + b] :
                a \in 1..kernel_size[1], b \in 1..kernel_size[2]})

\* C13: in max pooling backward every position holding its window's maximum
\* receives the window's whole incoming gradient, ties included, and every
\* position below the maximum receives zero.
C13_MaxPoolGradient ==
    pc \in {"FMaxPooling2D.backward", "maxpooling2d.backward"} =>
        /\ grads.dx.ok
        /\ \A i \in 1..args.x.h, j \in 1..args.x.w :
              ~ InRemainder(args.x, args.kernel_size, i, j) =>
                  LET win == WindowOf(args.kernel_size, i, j)
                  IN  grads.dx.data[i][j] =
                          IF args.x.data[i][j]
                                = WindowMax(args.x, args.kernel_size, win[1], win[2])
                          THEN dy.data[win[1]][win[2]]
                          ELSE 0

\* C14: in average pooling backward every position inside a window receives
\* the window's incoming gradient divided by Kh*Kw.
C14_AvgPoolGradient ==
    pc \in {"FAvgPooling2D.backward", "avgpooling2d.backward"} =>
        /\ grads.dx.ok
        /\ \A i \in 1..args.x.h, j \in 1..args.x.w :
              ~ InRemainder(args.x, args.kernel_size, i, j) =>
                  LET win == WindowOf(args.kernel_size, i, j)
                      area == args.kernel_size[1] * args.kernel_size[2]
                  IN  /\ grads.dx.data[i][j] = Frac(dy.data[win[1]][win[2]], area)
                      /\ grads.dx.data[i][j][1] * area
                            = dy.data[win[1]][win[2]] * grads.dx.data[i][j][2]


C17_BiasGradient ==
    (/\ pc = "FConvolution1D.backward"
     /\ ndim(args.x) = ndim(args.f)
     /\ grads.dx.ok
     /\ grads.df.ok) =>
        /\ (grads.db # None) <=> (args.b # None /\ args.b[1].requires_grad)
        /\ grads.db # None =>
              /\ Shape1(grads.db[1]) = <<dy.lead[2]>>
              /\ \A o \in 1..dy.lead[2] :
                    grads.db[1].data[o] = dy.lead[1] * SumOver(dy.data)


\* An embedding forward has returned
AfterEmbForward ==
    pc \in {"lookup_embedding.return", "lookup_embedding.backward", "EmbeddingFn.forward",
            "EmbeddingFn.backward", "embedding.return", "Embedding.forward",
            "Embedding.backward"}

\* An embedding backward function has returned a gradient for the table
AfterEmbBackward ==
    /\ pc \in {"lookup_embedding.backward", "EmbeddingFn.backward"}
    /\ grads.dw # None

\* The sum of the rows of dy at the positions where the index is r, column e
ScatterSum(r, e) ==
    SumOver([p \in 1..Len(args.x.data) |->
                IF args.x.data[p] = r
                THEN dy.data[(p - 1) * args.embedding_table.shape[2] + e]
                ELSE 0])

\* C18: embedding forward returns, for each index i in x, row i of the table;
\* embedding backward returns a table-shaped gradient whose row r is the sum
\* of the rows of dy at the positions where the index is r, zero when r never
\* occurs.
C18_GatherScatter ==
    LET V == args.embedding_table.shape[1]
        E == args.embedding_table.shape[2]
    IN  /\ AfterEmbForward =>
              /\ y.shape = args.x.shape \o <<E>>
              /\ \A p \in 1..Len(args.x.data), e \in 1..E :
                    y.data[(p - 1) * E + e]
                        = args.embedding_table.data[args.x.data[p] * E + e]
        /\ AfterEmbBackward =>
              /\ grads.dw[1].ok
              /\ grads.dw[1].shape = <<V, E>>
              /\ \A r \in 0..(V - 1), e \in 1..E :
                    grads.dw[1].data[r * E + e] = ScatterSum(r, e)

\* C19: the embedding backward gradient has the table's shape
\* (vocab_size, embedding_dim) for index tensors of every rank >= 1.
C19_GradientTableShaped ==
    AfterEmbBackward =>
        /\ grads.dw[1].ok
        /\ grads.dw[1].shape = args.embedding_table.shape

\* C20: when the table's requires_grad is false the embedding backward returns
\* None, and the backward of the Embedding module leaves the gradient slot of
\* the table as it was.
C20_GradientOnlyIfRequired ==
    /\ (/\ pc \in {"lookup_embedding.backward", "EmbeddingFn.backward"}
        /\ ~ args.embedding_table.requires_grad) => grads.dw = None
    /\ (/\ pc = "Embedding.backward"
        /\ ~ frame.self.w.requires_grad) => frame.self.grad = frame.grad0


\* C21: embedding lookup with an index tensor whose dtype is not an integer
\* kind raises ValueError, with nothing gathered and nothing written to the
\* cache.
C21_NonIntegerIndexRejected ==
    (/\ pc \in {"lookup_embedding.return", "lookup_embedding.raised", "EmbeddingFn.forward",
                "EmbeddingFn.raised", "embedding.return", "embedding.raised"}
     /\ ~ is_integer(args.x.dtype)) =>
        /\ y = Raised("ValueError")
        /\ pc \in {"lookup_embedding.raised", "EmbeddingFn.raised", "embedding.raised"}
        /\ cache = NewCache

\* EmbeddingFn.forward was called with a float32 index tensor on a fresh cache
C21_Witness ==
    /\ pc = "EmbeddingFn.raised"
    /\ args.x.dtype = "float32"
    /\ y = Raised("ValueError")
    /\ cache = NewCache


\* C22: temperature_softmax raises ValueError exactly when the temperature
\* equals 0, for every input and axis, with no result computed from x; every
\* non-zero temperature is accepted.
C22_ZeroTemperatureRejected ==
    pc \in {"temperature_softmax.return", "temperature_softmax.raised"} =>
        /\ args.temperature[1] = 0 =>
              (y = Raised("ValueError") /\ pc = "temperature_softmax.raised")
        /\ args.temperature[1] # 0 =>
              (y.ok /\ pc = "temperature_softmax.return")

\* temperature 0 was rejected for a 2 x 2 input
C22_Witness ==
    /\ pc = "temperature_softmax.raised"
    /\ args.temperature[1] = 0
    /\ args.x.h = 2
    /\ args.x.w = 2
    /\ y = Raised("ValueError")


\* A function of functional.py with a return_backward_fn flag has returned
ReturnedPair ==
    pc \in {"relu.return", "leaky_relu.return", "gelu.return", "sigmoid.return",
            "tanh.return", "linear.return", "maxpooling2d.return",
            "avgpooling2d.return", "lookup_embedding.return"}

\* The output of the call that has returned, had the flag been given as flag
OutputWith(flag) ==
    CASE pc = "relu.return" -> relu(args.x, flag).y
      [] pc = "leaky_relu.return" -> leaky_relu(args.x, args.alpha, flag).y
      [] pc = "gelu.return" -> gelu(args.x, flag).y
      [] pc = "sigmoid.return" -> sigmoid(args.x, flag).y
      [] pc = "tanh.return" -> tanh(args.x, flag).y
      [] pc = "linear.return" -> functional_linear(args.x, args.w, args.b, flag).y
      [] pc = "maxpooling2d.return" ->
            functional_maxpooling2d(args.x, args.kernel_size, flag).y
      [] pc = "avgpooling2d.return" ->
            functional_avgpooling2d(args.x, args.kernel_size, flag).y
      [] pc = "lookup_embedding.return" ->
            lookup_embedding(args.x, args.embedding_table, flag).y

\* C23: for relu, leaky_relu, gelu, sigmoid, tanh, linear, maxpooling2d,
\* avgpooling2d and lookup_embedding the second returned element is None when
\* return_backward_fn is false and a backward function when it is true, and the
\* output is the one the call returns with the other value of the flag.
C23_BackwardOnRequest ==
    ReturnedPair =>
        /\ (frame.backward = None) <=> ~ args.return_backward_fn
        /\ y = OutputWith(~ args.return_backward_fn)

\* linear with a bias returned without a backward function
C23_Witness ==
    /\ pc = "linear.return"
    /\ ~ args.return_backward_fn
    /\ args.b # None
    /\ frame.backward = None
    /\ y.ok


\* What the forward of round trip i returns when it runs alone on a fresh cache
AloneForward(i) ==
    IF args[i].fn = "FConvolution1D"
    THEN FConvolution1D_forward(NewCache, args[i].x, args[i].f, args[i].b,
                                args[i].padding, args[i].stride, args[i].dilation)
    ELSE FMaxPooling2D_forward(NewCache, args[i].x, args[i].kernel_size)

\* The gradients round trip i returns when it runs alone
AloneGrads(i) ==
    IF args[i].fn = "FConvolution1D"
    THEN FConvolution1D_backward(AloneForward(i).cache, dy[i]).grads
    ELSE FMaxPooling2D_backward(AloneForward(i).cache, dy[i]).dx

C25_ShuffleKeepsPairs ==
    pc \in {"shuffle.return", "shuffle.raised"} =>
        IF TensorLen(args.x) # TensorLen(args.y)
        THEN y = Raised("ShapeError") /\ pc = "shuffle.raised"
        ELSE /\ pc = "shuffle.return"
             /\ \E q \in PermutationsOf(TensorLen(args.x)) :
                   /\ y.x = TakeRows(args.x, q)
                   /\ y.y = TakeRows(args.y, q)
             /\ \A i \in 0..(TensorLen(args.x) - 1) :
                   \E j \in 0..(TensorLen(args.x) - 1) :
                      /\ TakeRows(y.x, <<j>>) = TakeRows(args.x, <<i>>)
                      /\ TakeRows(y.y, <<j>>) = TakeRows(args.y, <<i>>)

\* three distinct rows were shuffled into another order
C25_Witness ==
    /\ pc = "shuffle.return"
    /\ args.x.data = <<1, 2, 3>>
    /\ y.x.data = <<2, 3, 1>>
    /\ y.y.data = <<13, 14, 15, 16, 11, 12>>


\* C26: upsample2d(x, (f1, f2), shape) repeats every element f1 times along
\* axis -2 and f2 times along axis -1 (zeros beyond the repeated block), so the
\* blocks are f1 rows by f2 columns also when f1 # f2.
C26_UpsampleAxisOrder ==
    pc \in {"upsample2d.return", "upsample2d.raised", "functional.upsample2d.return",
            "functional.upsample2d.raised"} =>
        LET f1 == args.scaling_factors[1]
            f2 == args.scaling_factors[2]
        IN  /\ y.ok
            /\ Shape2(y) = args.shape
            /\ \A i \in 1..y.h, j \in 1..y.w :
                  y.data[i][j] =
                     IF i <= args.x.h * f1 /\ j <= args.x.w * f2
                     THEN args.x.data[((i - 1) \div f1) + 1][((j - 1) \div f2) + 1]
                     ELSE 0


\* C27: for 2D convolution with "same" padding the padding applied to each
\* spatial axis is that axis's own (dilated) kernel size // 2 on both sides,
\* also when the filter is not square.
C27_SamePaddingPerAxis ==
    (/\ pc \in {"FConvolution2D.forward", "convolve2d.return"}
     /\ args.padding = "same") =>
        frame.p = <<<<frame.f.h \div 2, frame.f.h \div 2>>,
                    <<frame.f.w \div 2, frame.f.w \div 2>>>>


\* C28: dilate2d with a pair of factors of which one is 1 and the other is
\* greater than 1 succeeds, leaves the factor-1 axis unchanged in length and
\* content and dilates only the other axis.
C28_DilateOneAxis ==
    /\ (/\ pc \in {"dilate2d.return", "dilate2d.raised"}
        /\ args.dilation[1] = 1
        /\ args.dilation[2] > 1)
          => /\ y.ok
             /\ y.h = args.x.h
             /\ \A i \in 1..args.x.h :
                   StridedSlice(y.data[i], args.dilation[2]) = args.x.data[i]
    /\ (/\ pc \in {"dilate2d.return", "dilate2d.raised"}
        /\ args.dilation[1] > 1
        /\ args.dilation[2] = 1)
          => /\ y.ok
             /\ y.w = args.x.w
             /\ StridedSlice(y.data, args.dilation[1]) = args.x.data


\* The modules reachable from the modules in S through sub_modules
SubModuleClosure(ms, S) ==
    S \cup {c \in DOMAIN ms : \E k \in S : \E i \in DOMAIN ms[k]._sub_modules :
                                  ms[k]._sub_modules[i] = c}

RECURSIVE ReachableFrom(_, _)
ReachableFrom(ms, S) ==
    IF SubModuleClosure(ms, S) = S THEN S ELSE ReachableFrom(ms, SubModuleClosure(ms, S))

\* C29: after assigning a value v to a module's training (or keep_output)
\* property, the module and every module reachable through sub_modules at any
\* depth hold v, and nothing else has changed in any module.
C29_AssignmentReachesAll ==
    [][\A m \in Mods, v \in BOOLEAN :
          /\ modules' = training_setter(modules, m, v) =>
                \A k \in Mods :
                   modules'[k] = IF k \in ReachableFrom(modules, {m})
                                 THEN [modules[k] EXCEPT !._training = v]
                                 ELSE modules[k]
          /\ modules' = keep_output_setter(modules, m, v) =>
                \A k \in Mods :
                   modules'[k] = IF k \in ReachableFrom(modules, {m})
                                 THEN [modules[k] EXCEPT !._keep_output = v]
                                 ELSE modules[k]]_vars

\* module 2 of a chain was put in training mode while module 1 was not: the
\* sub module of its sub module is in training mode
C29_Witness ==
    /\ MaxModules >= 3
    /\ modules[1]._sub_modules = <<2>>
    /\ modules[2]._sub_modules = <<3>>
    /\ ~ modules[1]._training
    /\ \A k \in ReachableFrom(modules, {2}) : modules[k]._training
    /\ 3 \in ReachableFrom(modules, {2})
    /\ modules[2].y # None

=============================================================================
